---- MODULE Spec2Model ----
(***************************************************************************)
(* A model of the path-external-auth-server decision engine: the Envoy     *)
(* external-authorization handler (auth/auth_handler.go), the portal-app   *)
(* ID extractor, the API-key authorizer, and the two in-memory stores the  *)
(* handler reads (store/portal_app_store.go, ratelimit/ratelimit_store.go).*)
(*                                                                         *)
(* Go strings whose content the code inspects (paths, header keys, header  *)
(* values, API keys, portal-app IDs) are sequences of one-character        *)
(* strings, so that prefix tests, splitting and canonicalisation are       *)
(* computed rather than assumed.  Messages, which the code only copies,    *)
(* are TLA+ strings.  A Go pointer is a sequence of length 0 (nil) or 1.   *)
(***************************************************************************)
EXTENDS Integers, Sequences, FiniteSets, TLC

VARIABLES
    portalApps,           \* portalAppStore.portalApps: PortalAppID -> PortalApp
    accountRateLimits,    \* portalAppStore.accountRateLimits: AccountID -> RateLimit
    rateLimitedAccounts,  \* rateLimitStore.rateLimitedAccounts (the keys of the map)
    pc,                   \* the handler: "idle", "handling" or "done"
    checkReq,             \* the probe being handled (a pointer to the HTTP sub-message)
    checkRet,             \* what Check returned, with the handler's locals and call log
    unitIn,               \* the arguments of a function run on its own
    unitOut,              \* what that function returned
    main,                 \* the main goroutine: where it is, the fetches NewPortalAppStore made, its err
    tasks,                \* the background goroutines started so far
    refreshErrors,        \* data_source_refresh_errors_total, by source_type
    refresher,            \* the portal-app store's background refresh: position, fetched map, err
    portalAppsMu,         \* portalAppStore.portalAppsMu: writer held, readers holding
    lookup,               \* a GetPortalApp call in progress, as a goroutine sees it
    monitor,              \* the rate-limit store's background check: position, err, locals
    rateLimitedAccountsMu, \* rateLimitStore.rateLimitedAccountsMu: writer held, readers holding
    limitCheck            \* an IsAccountRateLimited call in progress, as a goroutine sees it

vars == <<portalApps, accountRateLimits, rateLimitedAccounts, pc, checkReq, checkRet,
          unitIn, unitOut, main, tasks, refreshErrors, refresher, portalAppsMu, lookup,
          monitor, rateLimitedAccountsMu, limitCheck>>

storeVars == <<portalApps, accountRateLimits, rateLimitedAccounts>>

handlerVars == <<pc, checkReq, checkRet>>

unitVars == <<unitIn, unitOut>>

lifeVars == <<main, tasks, refreshErrors>>

limitVars == <<rateLimitedAccountsMu, limitCheck>>

lockVars == <<refresher, portalAppsMu, lookup, monitor, limitVars>>

----------------------------------------------------------------------------
(* Pointers and strings *)

Nil == <<>>

Ptr(x) == <<x>>

Deref(p) == p[1]

EmptyString == <<>>

HasPrefix(s, prefix) ==
    /\ Len(s) >= Len(prefix)
    /\ SubSeq(s, 1, Len(prefix)) = prefix

TrimPrefix(s, prefix) ==
    IF HasPrefix(s, prefix) THEN SubSeq(s, Len(prefix) + 1, Len(s)) ELSE s

\* strings.Split(s, sep) for a one-character separator: the pieces between
\* separators, empty pieces included; Split("", "/") is one empty piece.
RECURSIVE Split(_, _)
Split(s, sep) ==
    IF \E i \in 1..Len(s) : s[i] = sep
    THEN LET i == CHOOSE j \in 1..Len(s) :
                      /\ s[j] = sep
                      /\ \A k \in 1..(j - 1) : s[k] # sep
         IN  <<SubSeq(s, 1, i - 1)>> \o Split(SubSeq(s, i + 1, Len(s)), sep)
    ELSE <<s>>

Lowers == <<"a", "b", "c", "d", "e", "f", "g", "h", "i", "j", "k", "l", "m",
            "n", "o", "p", "q", "r", "s", "t", "u", "v", "w", "x", "y", "z">>

Uppers == <<"A", "B", "C", "D", "E", "F", "G", "H", "I", "J", "K", "L", "M",
            "N", "O", "P", "Q", "R", "S", "T", "U", "V", "W", "X", "Y", "Z">>

ToUpper(c) ==
    IF \E i \in 1..Len(Lowers) : Lowers[i] = c
    THEN Uppers[CHOOSE i \in 1..Len(Lowers) : Lowers[i] = c]
    ELSE c

ToLower(c) ==
    IF \E i \in 1..Len(Uppers) : Uppers[i] = c
    THEN Lowers[CHOOSE i \in 1..Len(Uppers) : Uppers[i] = c]
    ELSE c

\* The bytes net/textproto accepts in a header field name (those in use here).
TokenChars ==
    {Lowers[i] : i \in 1..Len(Lowers)} \cup {Uppers[i] : i \in 1..Len(Uppers)}
        \cup {"-", "0", "1", "2", "3", "4", "5", "6", "7", "8", "9"}

\* textproto.CanonicalMIMEHeaderKey, which http.Header's Add and Get apply to
\* the key: first letter and every letter after a hyphen upper case, the
\* rest lower case; a key holding a byte that is no token byte is unchanged.
CanonicalMIMEHeaderKey(s) ==
    IF \E i \in 1..Len(s) : s[i] \notin TokenChars
    THEN s
    ELSE [i \in 1..Len(s) |->
            IF i = 1 \/ s[i - 1] = "-" THEN ToUpper(s[i]) ELSE ToLower(s[i])]

----------------------------------------------------------------------------
(* Constants of package auth *)

accountRateLimitMessage ==
    "This account is rate limited. To upgrade your plan or modify your account settings, log in to your account at https://portal.grove.city/"

\* "/v1/"
pathPrefix == <<"/", "v", "1", "/">>

\* "Portal-Application-ID"
reqHeaderPortalAppID ==
    <<"P", "o", "r", "t", "a", "l", "-", "A", "p", "p", "l", "i", "c", "a", "t", "i", "o", "n", "-", "I", "D">>

\* "Portal-Account-ID"
reqHeaderAccountID ==
    <<"P", "o", "r", "t", "a", "l", "-", "A", "c", "c", "o", "u", "n", "t", "-", "I", "D">>

\* "Authorization"
authHeaderKey == <<"A", "u", "t", "h", "o", "r", "i", "z", "a", "t", "i", "o", "n">>

\* "Bearer " (seven characters, the last one a space)
apiKeyPrefix == <<"B", "e", "a", "r", "e", "r", " ">>

\* errors.New / fmt.Errorf: an error value is a pointer to its message.
errUnauthorized == Ptr("unauthorized")

errNoPortalAppID == Ptr("portal app ID not provided in header or path")

errRateLimited == Ptr("account is rate limited")

codes_OK == 0

codes_PermissionDenied == 7

StatusCode_BadRequest == 400

StatusCode_Unauthorized == 401

StatusCode_NotFound == 404

StatusCode_TooManyRequests == 429

----------------------------------------------------------------------------
(* http.Header *)

EmptyHeader == <<>>

\* The orders in which a Go range over a map with key set S may visit it.
IterationOrders(S) ==
    {order \in [1..Cardinality(S) -> S] :
        \A i, j \in 1..Cardinality(S) : order[i] = order[j] => i = j}

\* http.Header.Add: append the value under the canonical form of the key.
HeaderAdd(httpHeaders, key, value) ==
    LET k == CanonicalMIMEHeaderKey(key)
    IN  IF k \in DOMAIN httpHeaders
        THEN [httpHeaders EXCEPT ![k] = Append(@, value)]
        ELSE httpHeaders @@ (k :> <<value>>)

\* http.Header.Get: the first value under the canonical form of the key,
\* or "" when there is none.
HeaderGet(httpHeaders, key) ==
    LET k == CanonicalMIMEHeaderKey(key)
    IN  IF k \in DOMAIN httpHeaders /\ Len(httpHeaders[k]) > 0
        THEN httpHeaders[k][1]
        ELSE EmptyString

RECURSIVE convertMapToHeaderFrom(_, _, _)
convertMapToHeaderFrom(headersMap, order, httpHeaders) ==
    IF order = <<>>
    THEN httpHeaders
    ELSE convertMapToHeaderFrom(
             headersMap, Tail(order),
             HeaderAdd(httpHeaders, Head(order), headersMap[Head(order)]))

\* convertMapToHeader: range over the map, in the order the runtime picks,
\* adding every entry to a fresh http.Header.
convertMapToHeader(headersMap, order) ==
    convertMapToHeaderFrom(headersMap, order, EmptyHeader)

----------------------------------------------------------------------------
(* Portal-app ID extractor *)

extractPortalAppIDFromHeader(headers) ==
    LET portalAppID == HeaderGet(headers, reqHeaderPortalAppID)
    IN  IF portalAppID = EmptyString THEN EmptyString ELSE portalAppID

\* A variant that skips empty segments and returns the first non-empty one.
extractPortalAppIDFromPath_FirstNonEmpty(path) ==
    IF HasPrefix(path, pathPrefix)
    THEN LET segments == SelectSeq(Split(TrimPrefix(path, pathPrefix), "/"),
                                   LAMBDA segment : segment # EmptyString)
         IN  IF Len(segments) > 0
             THEN segments[1]
             ELSE EmptyString
    ELSE EmptyString

extractPortalAppIDFromPath(path) ==
    IF HasPrefix(path, pathPrefix)
    THEN LET segments == Split(TrimPrefix(path, pathPrefix), "/")
         IN  IF Len(segments) > 0 /\ segments[1] # EmptyString
             THEN segments[1]
             ELSE EmptyString
    ELSE EmptyString

\* A variant that tries the path before the header.
extractPortalAppID_PathFirst(headers, path) ==
    IF extractPortalAppIDFromPath(path) # EmptyString
    THEN [id |-> extractPortalAppIDFromPath(path), err |-> Nil]
    ELSE IF extractPortalAppIDFromHeader(headers) # EmptyString
    THEN [id |-> extractPortalAppIDFromHeader(headers), err |-> Nil]
    ELSE [id |-> EmptyString, err |-> errNoPortalAppID]

\* Returns [id, err]: err is nil exactly when an ID was extracted.
extractPortalAppID(headers, path) ==
    IF extractPortalAppIDFromHeader(headers) # EmptyString
    THEN [id |-> extractPortalAppIDFromHeader(headers), err |-> Nil]
    ELSE IF extractPortalAppIDFromPath(path) # EmptyString
    THEN [id |-> extractPortalAppIDFromPath(path), err |-> Nil]
    ELSE [id |-> EmptyString, err |-> errNoPortalAppID]

----------------------------------------------------------------------------
(* API-key authorizer *)

\* A variant that strips the prefix from every value that starts with it,
\* the bare prefix included.
authorizeRequest_TrimAlways(headers, portalApp) ==
    LET headerValue == HeaderGet(headers, authHeaderKey)
        apiKey ==
            IF /\ Len(headerValue) >= Len(apiKeyPrefix)
               /\ SubSeq(headerValue, 1, Len(apiKeyPrefix)) = apiKeyPrefix
            THEN SubSeq(headerValue, Len(apiKeyPrefix) + 1, Len(headerValue))
            ELSE headerValue
    IN  IF headerValue = EmptyString
        THEN errUnauthorized
        ELSE IF apiKey # Deref(portalApp.Auth).APIKey
        THEN errUnauthorized
        ELSE Nil

\* A variant that tells a missing header from a wrong key.
authorizeRequest_MissingHeaderMessage(headers, portalApp) ==
    LET headerValue == HeaderGet(headers, authHeaderKey)
        apiKey ==
            IF /\ Len(headerValue) > Len(apiKeyPrefix)
               /\ SubSeq(headerValue, 1, Len(apiKeyPrefix)) = apiKeyPrefix
            THEN SubSeq(headerValue, Len(apiKeyPrefix) + 1, Len(headerValue))
            ELSE headerValue
    IN  IF headerValue = EmptyString
        THEN Ptr("missing API key")
        ELSE IF apiKey # Deref(portalApp.Auth).APIKey
        THEN errUnauthorized
        ELSE Nil

\* AuthorizerAPIKey.authorizeRequest: nil, or errUnauthorized.
authorizeRequest(headers, portalApp) ==
    LET headerValue == HeaderGet(headers, authHeaderKey)
        apiKey ==
            IF /\ Len(headerValue) > Len(apiKeyPrefix)
               /\ SubSeq(headerValue, 1, Len(apiKeyPrefix)) = apiKeyPrefix
            THEN SubSeq(headerValue, Len(apiKeyPrefix) + 1, Len(headerValue))
            ELSE headerValue
    IN  IF headerValue = EmptyString
        THEN errUnauthorized
        ELSE IF apiKey # Deref(portalApp.Auth).APIKey
        THEN errUnauthorized
        ELSE Nil

----------------------------------------------------------------------------
(* Stores, as the handler reads them *)

\* portalAppStore.GetPortalApp under portalAppsMu.RLock: [app, ok].
GetPortalApp(portalAppID) ==
    IF portalAppID \in DOMAIN portalApps
    THEN [app |-> Ptr(portalApps[portalAppID]), ok |-> TRUE]
    ELSE [app |-> Nil, ok |-> FALSE]

\* rateLimitStore.IsAccountRateLimited under rateLimitedAccountsMu.RLock.
IsAccountRateLimited(accountID) == accountID \in rateLimitedAccounts

----------------------------------------------------------------------------
(* Authorization handler *)

\* fmt.Sprintf(errBody, httpCode, err) with errBody = {"code": %d, "message": "%s"}
errBody(httpCode, err) ==
    "{\"code\": " \o ToString(httpCode) \o ", \"message\": \"" \o err \o "\"}"

\* A variant whose body is the bare message.
getDeniedCheckResponse_BareBody(err, httpCode) ==
    [Status       |-> [Code |-> codes_PermissionDenied, Message |-> err],
     HttpResponse |-> [kind   |-> "DeniedResponse",
                       Status |-> [Code |-> httpCode],
                       Body   |-> err]]

getDeniedCheckResponse(err, httpCode) ==
    [Status       |-> [Code |-> codes_PermissionDenied, Message |-> err],
     HttpResponse |-> [kind   |-> "DeniedResponse",
                       Status |-> [Code |-> httpCode],
                       Body   |-> errBody(httpCode, err)]]

getOKCheckResponse(headers) ==
    [Status       |-> [Code |-> codes_OK, Message |-> "ok"],
     HttpResponse |-> [kind |-> "OkResponse", Headers |-> headers]]

\* A variant that also attaches the plan header of earlier releases.
getHTTPHeaders_WithPlan(portalApp) ==
    << [Key |-> reqHeaderPortalAppID, Value |-> portalApp.ID],
       [Key |-> reqHeaderAccountID,   Value |-> portalApp.AccountID] >>
    \o (IF portalApp.RateLimit # Nil
        THEN << [Key |-> <<"R", "l", "-", "P", "l", "a", "n">>, Value |-> portalApp.PlanType] >>
        ELSE <<>>)

getHTTPHeaders(portalApp) ==
    << [Key |-> reqHeaderPortalAppID, Value |-> portalApp.ID],
       [Key |-> reqHeaderAccountID,   Value |-> portalApp.AccountID] >>

\* A variant that runs the authorizer for every app with an Auth, an empty
\* secret included.
checkPortalAppAuthorized_EmptyKeyChecked(headers, portalApp) ==
    IF portalApp.Auth = Nil
    THEN [err |-> Nil, calls |-> <<>>]
    ELSE [err   |-> authorizeRequest(headers, portalApp),
          calls |-> <<"authorizeRequest">>]

\* checkPortalAppAuthorized: [err, calls]; calls logs the collaborators run.
checkPortalAppAuthorized(headers, portalApp) ==
    IF portalApp.Auth = Nil \/ Deref(portalApp.Auth).APIKey = EmptyString
    THEN [err |-> Nil, calls |-> <<>>]
    ELSE [err   |-> authorizeRequest(headers, portalApp),
          calls |-> <<"authorizeRequest">>]

\* A variant that asks the rate-limit store whether or not the app has a
\* RateLimit.
checkAccountRateLimited_AnyApp(portalApp) ==
    IF IsAccountRateLimited(portalApp.AccountID)
    THEN [err |-> errRateLimited, calls |-> <<"IsAccountRateLimited">>]
    ELSE [err |-> Nil, calls |-> <<"IsAccountRateLimited">>]

\* checkAccountRateLimited: [err, calls].
checkAccountRateLimited(portalApp) ==
    IF portalApp.RateLimit = Nil
    THEN [err |-> Nil, calls |-> <<>>]
    ELSE IF IsAccountRateLimited(portalApp.AccountID)
    THEN [err |-> errRateLimited, calls |-> <<"IsAccountRateLimited">>]
    ELSE [err |-> Nil, calls |-> <<"IsAccountRateLimited">>]

\* The labels of the auth_requests_total series RecordAuthRequest increments
\* just before Check returns resp: the handler's portalAppID (empty until
\* extracted), the AccountID of its portalApp (empty until looked up), the
\* decision, and the error type of the return taken, each under the name of
\* its constant.
authRequestLabels(resp, portalAppID, portalApp) ==
    [portal_app_id |-> portalAppID,
     account_id    |-> IF portalApp = Nil THEN "" ELSE Deref(portalApp).AccountID,
     status        |-> IF resp.HttpResponse.kind = "OkResponse"
                       THEN "AuthDecisionAuthorized"
                       ELSE "AuthDecisionDenied",
     error_type    |->
         IF resp.HttpResponse.kind = "OkResponse"
         THEN ""
         ELSE IF resp.HttpResponse.Status.Code = StatusCode_NotFound
         THEN "AuthRequestErrorTypePortalAppNotFound"
         ELSE IF resp.HttpResponse.Status.Code = StatusCode_Unauthorized
         THEN "AuthRequestErrorTypeUnauthorized"
         ELSE IF resp.HttpResponse.Status.Code = StatusCode_TooManyRequests
         THEN "AuthRequestErrorTypeRateLimited"
         ELSE IF resp.Status.Message = "HTTP request not found"
         THEN "AuthRequestErrorTypeInvalidRequestHTTPRequestNotFound"
         ELSE IF resp.Status.Message = "path not provided"
         THEN "AuthRequestErrorTypeInvalidRequestPathNotProvided"
         ELSE "AuthRequestErrorTypeInvalidRequestNoPortalAppID"]

\* What one Check call returns and did: the response, the Go error, the
\* handler's locals (headers, portalAppID, portalApp), the log of the calls
\* it made on its collaborators and the authorization metric it recorded.
CheckReturn(resp, err, headers, portalAppID, portalApp, calls) ==
    [resp        |-> resp,
     err         |-> err,
     headers     |-> headers,
     portalAppID |-> portalAppID,
     portalApp   |-> portalApp,
     calls       |-> calls,
     authRequest |-> authRequestLabels(resp, portalAppID, portalApp)]

\* Check, lines 178-205: the rate-limit step and the OK response.  got is
\* what GetPortalApp returned and calls the log of the calls made so far.
CheckRateLimitStep(headers, portalAppID, got, calls) ==
    LET portalApp == Deref(got.app)
        limited   == checkAccountRateLimited(portalApp)
    IN  IF limited.err # Nil
        THEN CheckReturn(
                 getDeniedCheckResponse(accountRateLimitMessage, StatusCode_TooManyRequests),
                 Nil, headers, portalAppID, got.app, calls \o limited.calls)
        ELSE CheckReturn(
                 getOKCheckResponse(getHTTPHeaders(portalApp)),
                 Nil, headers, portalAppID, got.app, calls \o limited.calls)

\* A variant that asks the rate-limit store before it authorizes the request.
CheckAuthorizationStep_RateLimitFirst(headers, portalAppID, got, calls) ==
    LET portalApp  == Deref(got.app)
        limited    == checkAccountRateLimited(portalApp)
        authorized == checkPortalAppAuthorized(headers, portalApp)
    IN  IF limited.err # Nil
        THEN CheckReturn(
                 getDeniedCheckResponse(accountRateLimitMessage, StatusCode_TooManyRequests),
                 Nil, headers, portalAppID, got.app, calls \o limited.calls)
        ELSE IF authorized.err # Nil
        THEN CheckReturn(
                 getDeniedCheckResponse(Deref(authorized.err), StatusCode_Unauthorized),
                 Nil, headers, portalAppID, got.app,
                 calls \o limited.calls \o authorized.calls)
        ELSE CheckReturn(
                 getOKCheckResponse(getHTTPHeaders(portalApp)),
                 Nil, headers, portalAppID, got.app,
                 calls \o limited.calls \o authorized.calls)

\* Check, lines 165-176: the authorization step.
CheckAuthorizationStep(headers, portalAppID, got, calls) ==
    LET portalApp  == Deref(got.app)
        authorized == checkPortalAppAuthorized(headers, portalApp)
    IN  IF authorized.err # Nil
        THEN CheckReturn(
                 getDeniedCheckResponse(Deref(authorized.err), StatusCode_Unauthorized),
                 Nil, headers, portalAppID, got.app, calls \o authorized.calls)
        ELSE CheckRateLimitStep(headers, portalAppID, got, calls \o authorized.calls)

\* A variant that answers a miss as it answers a bad key.
CheckLookupStep_MissUnauthorized(headers, portalAppID) ==
    LET got == GetPortalApp(portalAppID)
    IN  IF ~got.ok
        THEN CheckReturn(
                 getDeniedCheckResponse(Deref(errUnauthorized), StatusCode_Unauthorized),
                 Nil, headers, portalAppID, Nil, <<"GetPortalApp">>)
        ELSE CheckAuthorizationStep(headers, portalAppID, got, <<"GetPortalApp">>)

\* Check, lines 150-162: the lookup in the portal-app store.
CheckLookupStep(headers, portalAppID) ==
    LET got == GetPortalApp(portalAppID)
    IN  IF ~got.ok
        THEN CheckReturn(
                 getDeniedCheckResponse("portal app not found", StatusCode_NotFound),
                 Nil, headers, portalAppID, Nil, <<"GetPortalApp">>)
        ELSE CheckAuthorizationStep(headers, portalAppID, got, <<"GetPortalApp">>)

\* A variant that goes on to the extraction without looking at the path.
Check_NoPathCheck(req, order) ==
    IF req = Nil
    THEN CheckReturn(
             getDeniedCheckResponse("HTTP request not found", StatusCode_BadRequest),
             Nil, EmptyHeader, EmptyString, Nil, <<>>)
    ELSE
    LET path      == Deref(req).Path
        headers   == convertMapToHeader(Deref(req).Headers, order)
        extracted == extractPortalAppID(headers, path)
    IN  IF extracted.err # Nil
        THEN CheckReturn(
                 getDeniedCheckResponse(Deref(extracted.err), StatusCode_BadRequest),
                 Nil, headers, EmptyString, Nil, <<>>)
        ELSE CheckLookupStep(headers, extracted.id)

\* authHandler.Check on the probe whose HTTP sub-message is req (nil when the
\* probe has none), with order the order in which convertMapToHeader's range
\* visits the probe's header map.
Check(req, order) ==
    IF req = Nil
    THEN CheckReturn(
             getDeniedCheckResponse("HTTP request not found", StatusCode_BadRequest),
             Nil, EmptyHeader, EmptyString, Nil, <<>>)
    ELSE IF Deref(req).Path = EmptyString
    THEN CheckReturn(
             getDeniedCheckResponse("path not provided", StatusCode_BadRequest),
             Nil, EmptyHeader, EmptyString, Nil, <<>>)
    ELSE
    LET path      == Deref(req).Path
        headers   == convertMapToHeader(Deref(req).Headers, order)
        extracted == extractPortalAppID(headers, path)
    IN  IF extracted.err # Nil
        THEN CheckReturn(
                 getDeniedCheckResponse(Deref(extracted.err), StatusCode_BadRequest),
                 Nil, headers, EmptyString, Nil, <<>>)
        ELSE CheckLookupStep(headers, extracted.id)

----------------------------------------------------------------------------
(* The portal database, as the Postgres driver turns it into PortalApps *)

PlanFree_DatabaseType == "PLAN_FREE"

PlanUnlimited_DatabaseType == "PLAN_UNLIMITED"

FreeMonthlyRelays == 1000000

\* A monthly user limit an account may carry (above the free-tier cap).
UserLimit == 2000000

\* "s": the secret stored for key-gated apps
Secret == <<"s">>

\* Rows the SelectPortalApps query may return: portal apps "a" and "b" with
\* their settings and their account's plan.
PortalAppRows ==
    { [ID |-> <<"a">>, AccountID |-> "acct1", SecretKey |-> EmptyString,
       SecretKeyRequired |-> FALSE, MonthlyUserLimit |-> 0,
       Plan |-> PlanFree_DatabaseType],
      [ID |-> <<"a">>, AccountID |-> "acct1", SecretKey |-> Secret,
       SecretKeyRequired |-> TRUE, MonthlyUserLimit |-> UserLimit,
       Plan |-> PlanUnlimited_DatabaseType],
      [ID |-> <<"b">>, AccountID |-> "acct1", SecretKey |-> EmptyString,
       SecretKeyRequired |-> TRUE, MonthlyUserLimit |-> 0,
       Plan |-> PlanUnlimited_DatabaseType],
      [ID |-> <<"b">>, AccountID |-> "acct2", SecretKey |-> Secret,
       SecretKeyRequired |-> TRUE, MonthlyUserLimit |-> 0,
       Plan |-> PlanUnlimited_DatabaseType],
      [ID |-> <<"b">>, AccountID |-> "acct1", SecretKey |-> Secret,
       SecretKeyRequired |-> TRUE, MonthlyUserLimit |-> 0,
       Plan |-> PlanFree_DatabaseType] }

\* Results of the query: at most one row per portal app (the ID is the
\* table's key), and one plan and limit per account (they are columns of the
\* joined accounts table).
QueryResults ==
    {rows \in SUBSET PortalAppRows :
        \A r1, r2 \in rows :
            /\ r1.ID = r2.ID => r1 = r2
            /\ r1.AccountID = r2.AccountID =>
                   /\ r1.Plan = r2.Plan
                   /\ r1.MonthlyUserLimit = r2.MonthlyUserLimit}

getAuthDetails(r) ==
    IF r.SecretKeyRequired THEN Ptr([APIKey |-> r.SecretKey]) ELSE Nil

getRateLimitDetails(r) ==
    IF r.Plan = PlanFree_DatabaseType \/ r.MonthlyUserLimit > 0
    THEN Ptr([PlanType |-> r.Plan, MonthlyUserLimit |-> r.MonthlyUserLimit])
    ELSE Nil

convertToPortalApp(r) ==
    [ID        |-> r.ID,
     AccountID |-> r.AccountID,
     PlanType  |-> r.Plan,
     Auth      |-> getAuthDetails(r),
     RateLimit |-> getRateLimitDetails(r)]

\* sqlcPortalAppsToPortalApps: the map PortalAppID -> PortalApp of the rows.
sqlcPortalAppsToPortalApps(rows) ==
    [id \in {r.ID : r \in rows} |->
        convertToPortalApp(CHOOSE r \in rows : r.ID = id)]

\* What DataSource.GetPortalApps may return when it succeeds.
Snapshots == {sqlcPortalAppsToPortalApps(rows) : rows \in QueryResults}

----------------------------------------------------------------------------
(* Portal-app store *)

RECURSIVE setAccountRateLimitsFrom(_, _, _)
setAccountRateLimitsFrom(apps, order, rateLimits) ==
    IF order = <<>>
    THEN rateLimits
    ELSE LET portalApp == apps[Head(order)]
         IN  setAccountRateLimitsFrom(
                 apps, Tail(order),
                 IF portalApp.RateLimit = Nil
                 THEN rateLimits
                 ELSE IF portalApp.AccountID \in DOMAIN rateLimits
                 THEN rateLimits
                 ELSE rateLimits @@ (portalApp.AccountID :> Deref(portalApp.RateLimit)))

\* portalAppStore.setAccountRateLimits: range over the fetched apps in the
\* order the runtime picks; an account already in the rollup keeps its entry.
setAccountRateLimits(apps, order) ==
    setAccountRateLimitsFrom(apps, order, accountRateLimits)

\* The account's rollup entry presented as the account's portal app.
GetAccountPortalApp(accountID) ==
    IF accountID \in DOMAIN accountRateLimits
    THEN [app |-> Ptr([AccountID |-> accountID,
                       PlanType  |-> accountRateLimits[accountID].PlanType,
                       RateLimit |-> Ptr(accountRateLimits[accountID])]),
          ok  |-> TRUE]
    ELSE [app |-> Nil, ok |-> FALSE]

----------------------------------------------------------------------------
(* Rate-limit store *)

AccountIDs == {"acct1", "acct2"}

\* Month-to-date usages the warehouse may report: each at least the
\* threshold it was asked for.
Usages == {FreeMonthlyRelays, FreeMonthlyRelays + 1, UserLimit + 1}

\* What GetMonthToMomentUsage may return when it succeeds.
UsageResponses ==
    UNION {[accts -> Usages] : accts \in SUBSET AccountIDs}

\* A variant that holds every account with a RateLimit to the free-tier cap.
getRateLimit_FreeCapForAll(portalApp) ==
    IF portalApp.RateLimit = Nil
    THEN 0
    ELSE IF portalApp.PlanType = PlanFree_DatabaseType
    THEN FreeMonthlyRelays
    ELSE IF portalApp.PlanType = PlanUnlimited_DatabaseType
    THEN IF Deref(portalApp.RateLimit).MonthlyUserLimit > 0
         THEN FreeMonthlyRelays
         ELSE 0
    ELSE 0

\* A variant that applies a recorded MonthlyUserLimit whatever the plan.
getRateLimit_AnyPlanWithLimit(portalApp) ==
    IF portalApp.RateLimit = Nil
    THEN 0
    ELSE IF portalApp.PlanType = PlanFree_DatabaseType
    THEN FreeMonthlyRelays
    ELSE Deref(portalApp.RateLimit).MonthlyUserLimit

getRateLimit(portalApp) ==
    IF portalApp.RateLimit = Nil
    THEN 0
    ELSE IF portalApp.PlanType = PlanFree_DatabaseType
    THEN FreeMonthlyRelays
    ELSE IF portalApp.PlanType = PlanUnlimited_DatabaseType
    THEN IF Deref(portalApp.RateLimit).MonthlyUserLimit > 0
         THEN Deref(portalApp.RateLimit).MonthlyUserLimit
         ELSE 0
    ELSE 0

\* A variant that also limits an account whose usage equals its limit.
shouldLimitAccount_AtLimit(rateLimit, usage) ==
    IF rateLimit = 0 THEN FALSE ELSE usage >= rateLimit

\* A variant that limits an account only while it is one relay over.
shouldLimitAccount_OneOver(rateLimit, usage) ==
    IF rateLimit = 0 THEN FALSE ELSE usage = rateLimit + 1

shouldLimitAccount(rateLimit, usage) ==
    IF rateLimit = 0 THEN FALSE ELSE usage > rateLimit

\* A variant that holds an account the store does not know to the free-tier
\* cap instead of skipping it.
newRateLimitedAccounts_UnknownAsFree(accountUsage) ==
    {accountID \in DOMAIN accountUsage :
        IF GetAccountPortalApp(accountID).ok
        THEN shouldLimitAccount(
                 getRateLimit(Deref(GetAccountPortalApp(accountID).app)),
                 accountUsage[accountID])
        ELSE shouldLimitAccount(FreeMonthlyRelays, accountUsage[accountID])}

\* The set updateRateLimitedAccounts builds from the warehouse's response.
newRateLimitedAccounts(accountUsage) ==
    {accountID \in DOMAIN accountUsage :
        /\ GetAccountPortalApp(accountID).ok
        /\ shouldLimitAccount(
               getRateLimit(Deref(GetAccountPortalApp(accountID).app)),
               accountUsage[accountID])}

----------------------------------------------------------------------------
(* Probes *)

\* The most entries a probe's header map holds.
MaxHeaders == 2

\* "portal-application-id": the key as Envoy sends it (lower case)
lowerPortalAppIDKey ==
    <<"p", "o", "r", "t", "a", "l", "-", "a", "p", "p", "l", "i", "c", "a", "t", "i", "o", "n", "-", "i", "d">>

\* "authorization"
lowerAuthKey == <<"a", "u", "t", "h", "o", "r", "i", "z", "a", "t", "i", "o", "n">>

PortalAppIDKeys == {reqHeaderPortalAppID, lowerPortalAppIDKey}

AuthKeys == {authHeaderKey, lowerAuthKey}

\* Values of a portal-app ID header: "", "b", and "c" (no such app)
PortalAppIDValues == {EmptyString, <<"b">>, <<"c">>}

\* Values of an Authorization header: "", "s", "Bearer s", and "w" (a wrong key)
AuthValues == {EmptyString, Secret, apiKeyPrefix \o Secret, <<"w">>}

\* Values of an Authorization header that try the prefix rule: "", "s",
\* "Bearer s", "w", "Bearer " (the bare prefix), "bearer s", "Basic s",
\* "Bearer Bearer s"
PrefixAuthValues ==
    AuthValues \cup
    { apiKeyPrefix,
      <<"b", "e", "a", "r", "e", "r", " ", "s">>,
      <<"B", "a", "s", "i", "c", " ", "s">>,
      apiKeyPrefix \o apiKeyPrefix \o Secret }

\* The header maps (map[string]string) over the given keys, of at most
\* MaxHeaders entries; a portal-app ID key maps to a value of ids, an
\* Authorization key to a value of auths.
HeaderMaps(keys, ids, auths) ==
    UNION {{h \in [ks -> ids \cup auths] :
               \A k \in ks : h[k] \in (IF k \in PortalAppIDKeys THEN ids ELSE auths)} :
           ks \in {x \in SUBSET keys : Cardinality(x) <= MaxHeaders}}

\* "", "/v1", "/v1/", "/v1/a", "/v1/b", "/v1/c", "/v1/a/b", "/v1//a", "/a", "/v2/a"
Paths ==
    { EmptyString,
      <<"/", "v", "1">>,
      <<"/", "v", "1", "/">>,
      <<"/", "v", "1", "/", "a">>,
      <<"/", "v", "1", "/", "b">>,
      <<"/", "v", "1", "/", "c">>,
      <<"/", "v", "1", "/", "a", "/", "b">>,
      <<"/", "v", "1", "/", "/", "a">>,
      <<"/", "a">>,
      <<"/", "v", "2", "/", "a">> }

\* The paths of the probes sent to the running handler:
\* "", "/v1", "/v1/a", "/v1/b", "/v1/c"
ProbePaths ==
    { EmptyString,
      <<"/", "v", "1">>,
      <<"/", "v", "1", "/", "a">>,
      <<"/", "v", "1", "/", "b">>,
      <<"/", "v", "1", "/", "c">> }

\* The header keys of the probes sent to the running handler: one as Envoy
\* sends it (lower case), one as the tests write it.
ProbeHeaderKeys == {lowerPortalAppIDKey, authHeaderKey}

\* The HTTP sub-messages of the probes Envoy sends, and nil for a probe
\* without one.
CheckRequests ==
    {Nil} \cup {Ptr([Path |-> p, Headers |-> h]) :
                   p \in ProbePaths, h \in HeaderMaps(ProbeHeaderKeys, PortalAppIDValues, AuthValues)}

----------------------------------------------------------------------------
(* The system: one handler goroutine and the two stores' refresh tasks *)

\* The most refresh errors counted for one store.
MaxRefreshErrors == 2

NoReturn == Nil

\* The server once main has built both stores and serves: both background
\* goroutines run, no refresh and no lookup is in progress.
Serving ==
    /\ main = [pc |-> "Serve", fetches |-> 1, err |-> Nil]
    /\ tasks = {"startBackgroundRefresh", "startRateLimitMonitoring"}
    /\ refreshErrors = [portal_app_store |-> 0, rate_limit_store |-> 0]
    /\ refresher = [pc |-> "ticker", fetched |-> Nil, err |-> Nil]
    /\ portalAppsMu = [writer |-> FALSE, readers |-> 0]
    /\ lookup = Nil
    /\ monitor = [pc |-> "ticker", err |-> Nil]
    /\ rateLimitedAccountsMu = [writer |-> FALSE, readers |-> 0]
    /\ limitCheck = Nil

Init ==
    /\ Serving
    /\ portalApps \in Snapshots
    /\ \E order \in IterationOrders(DOMAIN portalApps) :
           accountRateLimits = setAccountRateLimitsFrom(portalApps, order, <<>>)
    /\ rateLimitedAccounts = {}
    /\ pc = "idle"
    /\ checkReq = Nil
    /\ checkRet = NoReturn
    /\ unitIn = Nil
    /\ unitOut = Nil

\* Envoy sends a probe.
Receive ==
    /\ pc = "idle"
    /\ \E req \in CheckRequests : checkReq' = Ptr(req)
    /\ pc' = "handling"
    /\ UNCHANGED <<storeVars, checkRet, unitVars, lifeVars, lockVars>>

\* A variant whose handler asks the source again when the lookup misses.
HandleCheck_FetchOnMiss ==
    /\ pc = "handling"
    /\ \E order \in IterationOrders(
                       IF Deref(checkReq) = Nil
                       THEN {}
                       ELSE DOMAIN Deref(Deref(checkReq)).Headers) :
           /\ checkRet' = Ptr(Check(Deref(checkReq), order))
           /\ IF Check(Deref(checkReq), order).calls = <<"GetPortalApp">>
              THEN portalApps' \in Snapshots
              ELSE portalApps' = portalApps
    /\ pc' = "done"
    /\ UNCHANGED <<accountRateLimits, rateLimitedAccounts, checkReq, unitVars, lifeVars, lockVars>>

\* The handler runs Check on the probe and returns.
HandleCheck ==
    /\ pc = "handling"
    /\ \E order \in IterationOrders(
                       IF Deref(checkReq) = Nil
                       THEN {}
                       ELSE DOMAIN Deref(Deref(checkReq)).Headers) :
           checkRet' = Ptr(Check(Deref(checkReq), order))
    /\ pc' = "done"
    /\ UNCHANGED <<storeVars, checkReq, unitVars, lifeVars, lockVars>>

\* Envoy takes the response.
Return ==
    /\ pc = "done"
    /\ pc' = "idle"
    /\ checkReq' = Nil
    /\ checkRet' = NoReturn
    /\ UNCHANGED <<storeVars, unitVars, lifeVars, lockVars>>

\* portalAppStore.refreshStore, the source call succeeding.
RefreshStore ==
    /\ "startBackgroundRefresh" \in tasks
    /\ \E apps \in Snapshots :
           /\ portalApps' = apps
           /\ \E order \in IterationOrders(DOMAIN apps) :
                  accountRateLimits' = setAccountRateLimits(apps, order)
    /\ UNCHANGED <<rateLimitedAccounts, handlerVars, unitVars, lifeVars, lockVars>>

\* portalAppStore.refreshStore, the source call failing: the error is
\* counted and the store left as it is.
RefreshStoreError ==
    /\ "startBackgroundRefresh" \in tasks
    /\ refreshErrors.portal_app_store < MaxRefreshErrors
    /\ refreshErrors' = [refreshErrors EXCEPT !.portal_app_store = @ + 1]
    /\ UNCHANGED <<storeVars, handlerVars, unitVars, main, tasks, lockVars>>

\* rateLimitStore.updateRateLimitedAccounts, the warehouse call succeeding.
UpdateRateLimitedAccounts ==
    /\ "startRateLimitMonitoring" \in tasks
    /\ \E accountUsage \in UsageResponses :
           rateLimitedAccounts' = newRateLimitedAccounts(accountUsage)
    /\ UNCHANGED <<portalApps, accountRateLimits, handlerVars, unitVars, lifeVars, lockVars>>

\* rateLimitStore.updateRateLimitedAccounts, the warehouse call failing: the
\* error is counted and the set left as it is.
UpdateRateLimitedAccountsError ==
    /\ "startRateLimitMonitoring" \in tasks
    /\ refreshErrors.rate_limit_store < MaxRefreshErrors
    /\ refreshErrors' = [refreshErrors EXCEPT !.rate_limit_store = @ + 1]
    /\ UNCHANGED <<storeVars, handlerVars, unitVars, main, tasks, lockVars>>

Next ==
    \/ Receive
    \/ HandleCheck
    \/ Return
    \/ RefreshStore
    \/ RefreshStoreError
    \/ UpdateRateLimitedAccounts
    \/ UpdateRateLimitedAccountsError

Spec == Init /\ [][Next]_vars

----------------------------------------------------------------------------
(* The extractor and the authorizer, each run on its own on every input *)

StoresUnused ==
    /\ Serving
    /\ portalApps = <<>>
    /\ accountRateLimits = <<>>
    /\ rateLimitedAccounts = {}
    /\ pc = "idle"
    /\ checkReq = Nil
    /\ checkRet = NoReturn

InitExtract ==
    /\ StoresUnused
    /\ \E h \in HeaderMaps(PortalAppIDKeys \cup AuthKeys, PortalAppIDValues, AuthValues),
          p \in Paths :
           unitIn = Ptr([Headers |-> h, Path |-> p])
    /\ unitOut = Nil

\* extractPortalAppID on the converted headers and the path.
Extract ==
    /\ unitIn # Nil
    /\ unitOut = Nil
    /\ \E order \in IterationOrders(DOMAIN Deref(unitIn).Headers) :
           unitOut' = Ptr([order |-> order,
                           ret   |-> extractPortalAppID(
                                         convertMapToHeader(Deref(unitIn).Headers, order),
                                         Deref(unitIn).Path)])
    /\ UNCHANGED <<storeVars, handlerVars, unitIn, lifeVars, lockVars>>

SpecExtract == InitExtract /\ [][Extract]_vars

\* Secrets a key-gated app may store: "s", "Bearer s", and "Bearer "
StoredKeys == {Secret, apiKeyPrefix \o Secret, apiKeyPrefix}

InitAuthorize ==
    /\ StoresUnused
    /\ \E h \in HeaderMaps(AuthKeys \cup {lowerPortalAppIDKey}, PortalAppIDValues,
                           PrefixAuthValues),
          k \in StoredKeys :
           unitIn = Ptr([Headers |-> h, APIKey |-> k])
    /\ unitOut = Nil

\* AuthorizerAPIKey.authorizeRequest on the converted headers and an app
\* storing the key.
Authorize ==
    /\ unitIn # Nil
    /\ unitOut = Nil
    /\ \E order \in IterationOrders(DOMAIN Deref(unitIn).Headers) :
           unitOut' = Ptr([order |-> order,
                           ret   |-> authorizeRequest(
                                         convertMapToHeader(Deref(unitIn).Headers, order),
                                         [Auth |-> Ptr([APIKey |-> Deref(unitIn).APIKey])])])
    /\ UNCHANGED <<storeVars, handlerVars, unitIn, lifeVars, lockVars>>

SpecAuthorize == InitAuthorize /\ [][Authorize]_vars

----------------------------------------------------------------------------
(* updateRateLimitedAccounts, run on its own on every response *)

\* Usages around both limits: the free-tier cap, the cap plus one, the
\* account's own limit, that limit plus one.
BoundaryUsages ==
    {FreeMonthlyRelays, FreeMonthlyRelays + 1, UserLimit, UserLimit + 1}

BoundaryResponses ==
    UNION {[accts -> BoundaryUsages] : accts \in SUBSET AccountIDs}

\* The portal-app store after two fetches, the rollup keeping what the first
\* one put in it; the rate-limit store as its constructor makes it.
InitRateLimit ==
    /\ Serving
    /\ \E first \in Snapshots, second \in Snapshots :
           /\ portalApps = second
           /\ \E order1 \in IterationOrders(DOMAIN first),
                 order2 \in IterationOrders(DOMAIN second) :
                  accountRateLimits =
                      setAccountRateLimitsFrom(
                          second, order2,
                          setAccountRateLimitsFrom(first, order1, <<>>))
    /\ rateLimitedAccounts = {}
    /\ pc = "idle"
    /\ checkReq = Nil
    /\ checkRet = NoReturn
    /\ \E accountUsage \in BoundaryResponses :
           unitIn = Ptr([accountUsage |-> accountUsage])
    /\ unitOut = Nil

\* updateRateLimitedAccounts on the warehouse's response.
UpdateOnResponse ==
    /\ unitIn # Nil
    /\ unitOut = Nil
    /\ rateLimitedAccounts' = newRateLimitedAccounts(Deref(unitIn).accountUsage)
    /\ unitOut' = Ptr([err |-> Nil])
    /\ UNCHANGED <<portalApps, accountRateLimits, handlerVars, unitIn, lifeVars, lockVars>>

SpecRateLimit == InitRateLimit /\ [][UpdateOnResponse]_vars

----------------------------------------------------------------------------
(* updateRateLimitedAccounts against the warehouse's relay totals *)

\* Rows of accounts on PLAN_UNLIMITED with a limit of their own below the
\* free-tier cap, next to the rows of PortalAppRows.
OverrideRows ==
    PortalAppRows \cup
    { [ID |-> <<"a">>, AccountID |-> "acct1", SecretKey |-> EmptyString,
       SecretKeyRequired |-> FALSE, MonthlyUserLimit |-> FreeMonthlyRelays \div 2,
       Plan |-> PlanUnlimited_DatabaseType],
      [ID |-> <<"b">>, AccountID |-> "acct2", SecretKey |-> Secret,
       SecretKeyRequired |-> TRUE, MonthlyUserLimit |-> FreeMonthlyRelays \div 2,
       Plan |-> PlanUnlimited_DatabaseType] }

\* Results of the query over those rows, under QueryResults' conditions.
OverrideQueryResults ==
    {rows \in SUBSET OverrideRows :
        \A r1, r2 \in rows :
            /\ r1.ID = r2.ID => r1 = r2
            /\ r1.AccountID = r2.AccountID =>
                   /\ r1.Plan = r2.Plan
                   /\ r1.MonthlyUserLimit = r2.MonthlyUserLimit}

OverrideSnapshots ==
    {sqlcPortalAppsToPortalApps(rows) : rows \in OverrideQueryResults}

\* Month-to-date totals the relays table may sum to for an account: below
\* every limit, between the low limit and the cap, at the cap, above it,
\* above the high limit.
RelayTotals ==
    {1, (FreeMonthlyRelays \div 2) + 1, FreeMonthlyRelays,
     FreeMonthlyRelays + 1, UserLimit + 1}

\* A variant of the query without its HAVING clause.
GetMonthToMomentUsage_NoThreshold(totals, minRelayThreshold) ==
    totals

\* Driver.GetMonthToMomentUsage: the accounts of the relays table whose
\* month-to-date total is at least the threshold, with that total.
GetMonthToMomentUsage(totals, minRelayThreshold) ==
    [accountID \in {a \in DOMAIN totals : totals[a] >= minRelayThreshold} |->
        totals[accountID]]

\* The portal-app store after a fetch; the relays table holding totals for
\* some accounts.
InitWarehouse ==
    /\ Serving
    /\ \E apps \in OverrideSnapshots :
           /\ portalApps = apps
           /\ \E order \in IterationOrders(DOMAIN apps) :
                  accountRateLimits = setAccountRateLimitsFrom(apps, order, <<>>)
    /\ rateLimitedAccounts = {}
    /\ pc = "idle"
    /\ checkReq = Nil
    /\ checkRet = NoReturn
    /\ \E accts \in SUBSET AccountIDs :
           \E totals \in [accts -> RelayTotals] :
               unitIn = Ptr([totals |-> totals])
    /\ unitOut = Nil

\* updateRateLimitedAccounts, the warehouse answering its call.
UpdateFromWarehouse ==
    /\ unitIn # Nil
    /\ unitOut = Nil
    /\ LET minRelayThreshold == FreeMonthlyRelays
           accountUsage ==
               GetMonthToMomentUsage(Deref(unitIn).totals, minRelayThreshold)
       IN  /\ rateLimitedAccounts' = newRateLimitedAccounts(accountUsage)
           /\ unitOut' = Ptr([minRelayThreshold |-> minRelayThreshold,
                              accountUsage      |-> accountUsage,
                              err               |-> Nil])
    /\ UNCHANGED <<portalApps, accountRateLimits, handlerVars, unitIn, lifeVars, lockVars>>

SpecWarehouse == InitWarehouse /\ [][UpdateFromWarehouse]_vars

----------------------------------------------------------------------------
(* The handler over a database that holds an app without an account *)

\* portal_applications.account_id may be NULL, and the query LEFT JOINs
\* accounts: such an app's row comes with no account, no plan and no limit,
\* which the driver reads as "", "" and 0.
OrphanRows ==
    PortalAppRows \cup
    { [ID |-> <<"b">>, AccountID |-> "", SecretKey |-> EmptyString,
       SecretKeyRequired |-> FALSE, MonthlyUserLimit |-> 0, Plan |-> ""] }

OrphanQueryResults ==
    {rows \in SUBSET OrphanRows :
        \A r1, r2 \in rows :
            /\ r1.ID = r2.ID => r1 = r2
            /\ r1.AccountID = r2.AccountID =>
                   /\ r1.Plan = r2.Plan
                   /\ r1.MonthlyUserLimit = r2.MonthlyUserLimit}

OrphanSnapshots ==
    {sqlcPortalAppsToPortalApps(rows) : rows \in OrphanQueryResults}

\* The server serving after one fetch and one rate-limit check.
InitOrphan ==
    /\ Serving
    /\ portalApps \in OrphanSnapshots
    /\ \E order \in IterationOrders(DOMAIN portalApps) :
           accountRateLimits = setAccountRateLimitsFrom(portalApps, order, <<>>)
    /\ \E accountUsage \in UsageResponses :
           rateLimitedAccounts = newRateLimitedAccounts(accountUsage)
    /\ pc = "idle"
    /\ checkReq = Nil
    /\ checkRet = NoReturn
    /\ unitIn = Nil
    /\ unitOut = Nil

NextOrphan ==
    \/ Receive
    \/ HandleCheck
    \/ Return

SpecOrphan == InitOrphan /\ [][NextOrphan]_vars

----------------------------------------------------------------------------
(* The comparison of authorizeRequest, byte by byte *)

\* Secrets and presented keys of one or two bytes over "s" and "k".
KeyBytes == {"s", "k"}

ShortKeys == {<<b>> : b \in KeyBytes} \cup {<<b1, b2>> : b1, b2 \in KeyBytes}

\* The first index at which two strings of one length differ; one past the
\* length when they are equal.
firstMismatch(a, b) ==
    IF a = b
    THEN Len(a) + 1
    ELSE CHOOSE i \in 1..Len(a) :
             /\ a[i] # b[i]
             /\ \A j \in 1..(i - 1) : a[j] = b[j]

\* The sizes of the blocks in which the build's memequal may compare
\* memory: byte by byte, or two bytes at a time.
BlockSizes == {1, 2}

\* The number of bytes apiKey != portalApp.Auth.APIKey looks at.  The
\* operator compares the lengths first and then the memory block by block,
\* stopping after the first block that differs.
bytesExamined(a, b, block) ==
    IF Len(a) # Len(b)
    THEN 0
    ELSE IF a = b
    THEN Len(a)
    ELSE LET upTo == (((firstMismatch(a, b) - 1) \div block) + 1) * block
         IN  IF upTo < Len(a) THEN upTo ELSE Len(a)

InitCompare ==
    /\ StoresUnused
    /\ \E secret \in ShortKeys, first \in ShortKeys, second \in ShortKeys,
          block \in BlockSizes :
           /\ Len(first) = Len(second)
           /\ unitIn = Ptr([APIKey |-> secret, first |-> first, second |-> second,
                            block |-> block])
    /\ unitOut = Nil

\* authorizeRequest's comparison, run on two presented keys of one length
\* against the same secret.
Compare ==
    /\ unitIn # Nil
    /\ unitOut = Nil
    /\ LET in == Deref(unitIn)
       IN  unitOut' = Ptr([unauthorizedFirst  |-> in.first # in.APIKey,
                           examinedFirst      |->
                               bytesExamined(in.first, in.APIKey, in.block),
                           unauthorizedSecond |-> in.second # in.APIKey,
                           examinedSecond     |->
                               bytesExamined(in.second, in.APIKey, in.block)])
    /\ UNCHANGED <<storeVars, handlerVars, unitIn, lifeVars, lockVars>>

SpecCompare == InitCompare /\ [][Compare]_vars

----------------------------------------------------------------------------
(* getRateLimit and shouldLimitAccount, run on their own on every input *)

\* Plans a PortalApp may carry: the two the store knows and one it does not.
PlanTypes == {PlanFree_DatabaseType, PlanUnlimited_DatabaseType, "PLAN_UNKNOWN"}

\* Monthly user limits: none, one below the free-tier cap, one above it.
MonthlyUserLimits == {0, FreeMonthlyRelays \div 2, UserLimit}

\* The *store.PortalApp values getRateLimit may be handed.
AccountPortalApps ==
    UNION {{[AccountID |-> "acct1", PlanType |-> planType, RateLimit |-> rateLimit] :
               rateLimit \in {Nil} \cup
                   {Ptr([PlanType |-> planType, MonthlyUserLimit |-> limit]) :
                       limit \in MonthlyUserLimits}} :
           planType \in PlanTypes}

\* Usages at and one above each limit, and none at all.
DecisionUsages ==
    {0} \cup UNION {{limit, limit + 1} :
                       limit \in (MonthlyUserLimits \ {0}) \cup {FreeMonthlyRelays}}

InitDecide ==
    /\ StoresUnused
    /\ \E portalApp \in AccountPortalApps, usage \in DecisionUsages,
          higher \in DecisionUsages :
           /\ usage <= higher
           /\ unitIn = Ptr([portalApp |-> portalApp, usage |-> usage,
                            higher |-> higher])
    /\ unitOut = Nil

\* The decision of updateRateLimitedAccounts' loop body for one portal app,
\* taken for a usage and for a usage at least as high.
Decide ==
    /\ unitIn # Nil
    /\ unitOut = Nil
    /\ LET rateLimit == getRateLimit(Deref(unitIn).portalApp)
       IN  unitOut' = Ptr([rateLimit   |-> rateLimit,
                           shouldLimit |-> shouldLimitAccount(rateLimit, Deref(unitIn).usage),
                           shouldLimitHigher |->
                               shouldLimitAccount(rateLimit, Deref(unitIn).higher)])
    /\ UNCHANGED <<storeVars, handlerVars, unitIn, lifeVars, lockVars>>

SpecDecide == InitDecide /\ [][Decide]_vars

----------------------------------------------------------------------------
(* The portal-app store's background refresh, statement by statement *)

\* A variant that takes the write lock before it calls the source.
RefresherTick_LockFirst ==
    /\ "startBackgroundRefresh" \in tasks
    /\ refresher.pc = "ticker"
    /\ ~portalAppsMu.writer
    /\ portalAppsMu.readers = 0
    /\ portalAppsMu' = [portalAppsMu EXCEPT !.writer = TRUE]
    /\ refresher' = [pc |-> "GetPortalApps", fetched |-> Nil, err |-> Nil]
    /\ UNCHANGED <<storeVars, handlerVars, unitVars, monitor, lifeVars, lookup, limitVars>>

\* startBackgroundRefresh: the ticker fires and refreshStore calls the source.
RefresherTick ==
    /\ "startBackgroundRefresh" \in tasks
    /\ refresher.pc = "ticker"
    /\ refresher' = [pc |-> "GetPortalApps", fetched |-> Nil, err |-> Nil]
    /\ UNCHANGED <<storeVars, handlerVars, unitVars, monitor, lifeVars, portalAppsMu, lookup, limitVars>>

\* setStoreData: GetPortalApps returns the apps of the database.
RefresherFetch ==
    /\ refresher.pc = "GetPortalApps"
    /\ \E apps \in Snapshots :
           refresher' = [pc |-> "Lock", fetched |-> Ptr(apps), err |-> Nil]
    /\ UNCHANGED <<storeVars, handlerVars, unitVars, monitor, lifeVars, portalAppsMu, lookup, limitVars>>

\* A variant whose goroutine ends at the first failed refresh.
RefresherFetchError_Exits ==
    /\ refresher.pc = "GetPortalApps"
    /\ refreshErrors.portal_app_store < MaxRefreshErrors
    /\ refreshErrors' = [refreshErrors EXCEPT !.portal_app_store = @ + 1]
    /\ refresher' = [pc |-> "ticker", fetched |-> Nil,
                     err |-> Ptr("failed to refresh store data")]
    /\ tasks' = tasks \ {"startBackgroundRefresh"}
    /\ UNCHANGED <<storeVars, handlerVars, unitVars, monitor, main, portalAppsMu, lookup, limitVars>>

\* setStoreData: GetPortalApps fails; refreshStore counts the error and
\* returns it, startBackgroundRefresh logs it and waits for the next tick.
RefresherFetchError ==
    /\ refresher.pc = "GetPortalApps"
    /\ refreshErrors.portal_app_store < MaxRefreshErrors
    /\ refreshErrors' = [refreshErrors EXCEPT !.portal_app_store = @ + 1]
    /\ refresher' = [pc |-> "ticker", fetched |-> Nil,
                     err |-> Ptr("failed to refresh store data")]
    /\ UNCHANGED <<storeVars, handlerVars, unitVars, monitor, main, tasks, portalAppsMu, lookup, limitVars>>

\* setStoreData: c.portalAppsMu.Lock()
RefresherLock ==
    /\ refresher.pc = "Lock"
    /\ ~portalAppsMu.writer
    /\ portalAppsMu.readers = 0
    /\ portalAppsMu' = [portalAppsMu EXCEPT !.writer = TRUE]
    /\ refresher' = [refresher EXCEPT !.pc = "assign"]
    /\ UNCHANGED <<storeVars, handlerVars, unitVars, monitor, lifeVars, lookup, limitVars>>

\* What a lookup in progress has been given to see once the refresher has
\* swapped the fetched map in: the fetched map's answer for its ID as well.
LookupAfterSwap ==
    IF lookup = Nil
    THEN Nil
    ELSE LET id   == Deref(lookup).portalAppID
             apps == Deref(refresher.fetched)
         IN  Ptr([Deref(lookup) EXCEPT
                     !.seen = @ \cup {IF id \in DOMAIN apps
                                      THEN [app |-> Ptr(apps[id]), ok |-> TRUE]
                                      ELSE [app |-> Nil, ok |-> FALSE]}])

\* A variant that assigns the fetched apps piecemeal: the map it publishes
\* first holds only some of them.
RefresherAssign_Piecemeal ==
    /\ refresher.pc = "assign"
    /\ \E ids \in SUBSET DOMAIN Deref(refresher.fetched) :
           portalApps' = [id \in ids |-> Deref(refresher.fetched)[id]]
    /\ refresher' = [refresher EXCEPT !.pc = "Unlock"]
    /\ lookup' = LookupAfterSwap
    /\ UNCHANGED <<accountRateLimits, rateLimitedAccounts, handlerVars, unitVars, monitor,
                   lifeVars, portalAppsMu, limitVars>>

\* A variant that adds the fetched apps to the published ones instead of
\* replacing them.
RefresherAssign_Merge ==
    /\ refresher.pc = "assign"
    /\ portalApps' =
           [id \in DOMAIN Deref(refresher.fetched) \cup DOMAIN portalApps |->
               IF id \in DOMAIN Deref(refresher.fetched)
               THEN Deref(refresher.fetched)[id]
               ELSE portalApps[id]]
    /\ refresher' = [refresher EXCEPT !.pc = "Unlock"]
    /\ lookup' = LookupAfterSwap
    /\ UNCHANGED <<accountRateLimits, rateLimitedAccounts, handlerVars, unitVars, monitor,
                   lifeVars, portalAppsMu, limitVars>>

\* setStoreData: c.portalApps = portalApps
RefresherAssign ==
    /\ refresher.pc = "assign"
    /\ portalApps' = Deref(refresher.fetched)
    /\ refresher' = [refresher EXCEPT !.pc = "Unlock"]
    /\ lookup' = LookupAfterSwap
    /\ UNCHANGED <<accountRateLimits, rateLimitedAccounts, handlerVars, unitVars, monitor,
                   lifeVars, portalAppsMu, limitVars>>

\* setStoreData: c.portalAppsMu.Unlock()
RefresherUnlock ==
    /\ refresher.pc = "Unlock"
    /\ portalAppsMu' = [portalAppsMu EXCEPT !.writer = FALSE]
    /\ refresher' = [refresher EXCEPT !.pc = "setAccountRateLimits"]
    /\ UNCHANGED <<storeVars, handlerVars, unitVars, monitor, lifeVars, lookup, limitVars>>

\* setStoreData: c.setAccountRateLimits(portalApps), under accountRateLimitsMu;
\* refreshStore returns nil and startBackgroundRefresh waits for the next tick.
RefresherRollup ==
    /\ refresher.pc = "setAccountRateLimits"
    /\ \E order \in IterationOrders(DOMAIN Deref(refresher.fetched)) :
           accountRateLimits' = setAccountRateLimits(Deref(refresher.fetched), order)
    /\ refresher' = [pc |-> "ticker", fetched |-> Nil, err |-> Nil]
    /\ UNCHANGED <<portalApps, rateLimitedAccounts, handlerVars, unitVars, monitor, lifeVars,
                   portalAppsMu, lookup, limitVars>>

Refresher ==
    \/ RefresherTick
    \/ RefresherFetch
    \/ RefresherFetchError
    \/ RefresherLock
    \/ RefresherAssign
    \/ RefresherUnlock
    \/ RefresherRollup

----------------------------------------------------------------------------
(* GetPortalApp, statement by statement, beside the refresh *)

\* The IDs looked up: "a", "b", and "c" (never in the database)
LookupIDs == {<<"a">>, <<"b">>, <<"c">>}

\* A goroutine calls GetPortalApp.  pre and seen are what the published map
\* answers for the ID at the call, and at the call or any swap after it.
LookupCall ==
    /\ main.pc = "Serve"
    /\ lookup = Nil
    /\ \E id \in LookupIDs :
           lookup' = Ptr([pc          |-> "RLock",
                          portalAppID |-> id,
                          pre         |-> GetPortalApp(id),
                          seen        |-> {GetPortalApp(id)},
                          ret         |-> Nil])
    /\ UNCHANGED <<storeVars, handlerVars, unitVars, monitor, lifeVars, refresher, portalAppsMu, limitVars>>

\* c.portalAppsMu.RLock()
LookupRLock ==
    /\ lookup # Nil
    /\ Deref(lookup).pc = "RLock"
    /\ ~portalAppsMu.writer
    /\ portalAppsMu' = [portalAppsMu EXCEPT !.readers = @ + 1]
    /\ lookup' = Ptr([Deref(lookup) EXCEPT !.pc = "read"])
    /\ UNCHANGED <<storeVars, handlerVars, unitVars, monitor, lifeVars, refresher, limitVars>>

\* portalApp, ok := c.portalApps[portalAppID]
LookupRead ==
    /\ lookup # Nil
    /\ Deref(lookup).pc = "read"
    /\ lookup' = Ptr([Deref(lookup) EXCEPT
                         !.pc  = "RUnlock",
                         !.ret = Ptr(GetPortalApp(Deref(lookup).portalAppID))])
    /\ UNCHANGED <<storeVars, handlerVars, unitVars, monitor, lifeVars, refresher, portalAppsMu, limitVars>>

\* defer c.portalAppsMu.RUnlock()
LookupRUnlock ==
    /\ lookup # Nil
    /\ Deref(lookup).pc = "RUnlock"
    /\ portalAppsMu' = [portalAppsMu EXCEPT !.readers = @ - 1]
    /\ lookup' = Ptr([Deref(lookup) EXCEPT !.pc = "return"])
    /\ UNCHANGED <<storeVars, handlerVars, unitVars, monitor, lifeVars, refresher, limitVars>>

\* The caller takes the result.
LookupReturn ==
    /\ lookup # Nil
    /\ Deref(lookup).pc = "return"
    /\ lookup' = Nil
    /\ UNCHANGED <<storeVars, handlerVars, unitVars, monitor, lifeVars, refresher, portalAppsMu, limitVars>>

NextLookup ==
    \/ RefresherTick
    \/ RefresherFetch
    \/ RefresherFetchError
    \/ RefresherLock
    \/ RefresherAssign
    \/ RefresherUnlock
    \/ RefresherRollup
    \/ LookupCall
    \/ LookupRLock
    \/ LookupRead
    \/ LookupRUnlock
    \/ LookupReturn

SpecLookup == Init /\ [][NextLookup]_vars

----------------------------------------------------------------------------
(* Startup and the two background goroutines *)

\* main before it has built anything: both maps as the constructors make them.
InitLifecycle ==
    /\ main = [pc |-> "NewPortalAppStore", fetches |-> 0, err |-> Nil]
    /\ tasks = {}
    /\ refreshErrors = [portal_app_store |-> 0, rate_limit_store |-> 0]
    /\ refresher = [pc |-> "ticker", fetched |-> Nil, err |-> Nil]
    /\ monitor = [pc |-> "ticker", err |-> Nil]
    /\ rateLimitedAccountsMu = [writer |-> FALSE, readers |-> 0]
    /\ limitCheck = Nil
    /\ portalAppsMu = [writer |-> FALSE, readers |-> 0]
    /\ lookup = Nil
    /\ portalApps = <<>>
    /\ accountRateLimits = <<>>
    /\ rateLimitedAccounts = {}
    /\ pc = "idle"
    /\ checkReq = Nil
    /\ checkRet = NoReturn
    /\ unitIn = Nil
    /\ unitOut = Nil

\* NewPortalAppStore: initializeStore fetches the apps and fills the store.
InitializeStore ==
    /\ main.pc = "NewPortalAppStore"
    /\ \E apps \in Snapshots :
           /\ portalApps' = apps
           /\ \E order \in IterationOrders(DOMAIN apps) :
                  accountRateLimits' = setAccountRateLimits(apps, order)
    /\ main' = [pc |-> "go startBackgroundRefresh", fetches |-> main.fetches + 1, err |-> Nil]
    /\ UNCHANGED <<rateLimitedAccounts, handlerVars, unitVars, tasks, refreshErrors, lockVars>>

\* A variant that logs a failed initial fetch and goes on, as the rate-limit
\* store does.
InitializeStoreError_GoesOn ==
    /\ main.pc = "NewPortalAppStore"
    /\ refreshErrors' = [refreshErrors EXCEPT !.portal_app_store = @ + 1]
    /\ main' = [pc |-> "go startBackgroundRefresh", fetches |-> main.fetches + 1,
                err |-> Ptr("failed to initialize portal app store")]
    /\ UNCHANGED <<storeVars, handlerVars, unitVars, tasks, lockVars>>

\* NewPortalAppStore: the initial fetch fails; initializeStore counts the
\* error, NewPortalAppStore returns nil and the error, main panics.
InitializeStoreError ==
    /\ main.pc = "NewPortalAppStore"
    /\ refreshErrors' = [refreshErrors EXCEPT !.portal_app_store = @ + 1]
    /\ main' = [pc |-> "panic", fetches |-> main.fetches + 1,
                err |-> Ptr("failed to initialize portal app store")]
    /\ UNCHANGED <<storeVars, handlerVars, unitVars, tasks, lockVars>>

\* NewPortalAppStore: go store.startBackgroundRefresh(...); return store, nil
StartBackgroundRefresh ==
    /\ main.pc = "go startBackgroundRefresh"
    /\ tasks' = tasks \cup {"startBackgroundRefresh"}
    /\ main' = [main EXCEPT !.pc = "NewRateLimitStore"]
    /\ UNCHANGED <<storeVars, handlerVars, unitVars, refreshErrors, lockVars>>

\* NewRateLimitStore: the initial updateRateLimitedAccounts succeeds.
InitialRateLimitCheck ==
    /\ main.pc = "NewRateLimitStore"
    /\ \E accountUsage \in UsageResponses :
           rateLimitedAccounts' = newRateLimitedAccounts(accountUsage)
    /\ main' = [main EXCEPT !.pc = "go startRateLimitMonitoring"]
    /\ UNCHANGED <<portalApps, accountRateLimits, handlerVars, unitVars, tasks,
                   refreshErrors, lockVars>>

\* A variant that gives the failed initial check back to main, which panics.
InitialRateLimitCheckError_Aborts ==
    /\ main.pc = "NewRateLimitStore"
    /\ refreshErrors' = [refreshErrors EXCEPT !.rate_limit_store = @ + 1]
    /\ main' = [main EXCEPT !.pc = "panic",
                            !.err = Ptr("failed to get monthly usage data")]
    /\ tasks' = {}
    /\ UNCHANGED <<storeVars, handlerVars, unitVars, lockVars>>

\* NewRateLimitStore: the initial updateRateLimitedAccounts fails; the error
\* is counted and logged, the set stays as the constructor made it.
InitialRateLimitCheckError ==
    /\ main.pc = "NewRateLimitStore"
    /\ refreshErrors' = [refreshErrors EXCEPT !.rate_limit_store = @ + 1]
    /\ main' = [main EXCEPT !.pc = "go startRateLimitMonitoring",
                            !.err = Ptr("failed to get monthly usage data")]
    /\ UNCHANGED <<storeVars, handlerVars, unitVars, tasks, lockVars>>

\* NewRateLimitStore: go rls.startRateLimitMonitoring(...); return rls, nil;
\* main registers the handler and serves.
StartRateLimitMonitoring ==
    /\ main.pc = "go startRateLimitMonitoring"
    /\ tasks' = tasks \cup {"startRateLimitMonitoring"}
    /\ main' = [main EXCEPT !.pc = "Serve"]
    /\ UNCHANGED <<storeVars, handlerVars, unitVars, refreshErrors, lockVars>>

\* A variant whose ticker starts a refresh whether or not the last one has
\* returned.
MonitorTick_WhileBusy ==
    /\ "startRateLimitMonitoring" \in tasks
    /\ monitor' = [pc |-> "GetMonthToMomentUsage", err |-> Nil]
    /\ UNCHANGED <<storeVars, handlerVars, unitVars, lifeVars, refresher, portalAppsMu, lookup, limitVars>>

\* startRateLimitMonitoring: the ticker fires and updateRateLimitedAccounts
\* calls the warehouse.
MonitorTick ==
    /\ "startRateLimitMonitoring" \in tasks
    /\ monitor.pc = "ticker"
    /\ monitor' = [pc |-> "GetMonthToMomentUsage", err |-> Nil]
    /\ UNCHANGED <<storeVars, handlerVars, unitVars, lifeVars, refresher, portalAppsMu, lookup, limitVars>>

\* updateRateLimitedAccounts: the warehouse answers; the new set is built
\* and swapped in.
MonitorUpdate ==
    /\ monitor.pc = "GetMonthToMomentUsage"
    /\ \E accountUsage \in UsageResponses :
           rateLimitedAccounts' = newRateLimitedAccounts(accountUsage)
    /\ monitor' = [pc |-> "ticker", err |-> Nil]
    /\ UNCHANGED <<portalApps, accountRateLimits, handlerVars, unitVars, lifeVars,
                   refresher, portalAppsMu, lookup, limitVars>>

\* A variant that empties the set when the warehouse cannot be asked.
MonitorUpdateError_ClearsSet ==
    /\ monitor.pc = "GetMonthToMomentUsage"
    /\ refreshErrors.rate_limit_store < MaxRefreshErrors
    /\ refreshErrors' = [refreshErrors EXCEPT !.rate_limit_store = @ + 1]
    /\ rateLimitedAccounts' = {}
    /\ monitor' = [pc |-> "ticker", err |-> Ptr("failed to get monthly usage data")]
    /\ UNCHANGED <<portalApps, accountRateLimits, handlerVars, unitVars, main, tasks,
                   refresher, portalAppsMu, lookup, limitVars>>

\* updateRateLimitedAccounts: the warehouse call fails; the error is counted
\* and returned, startRateLimitMonitoring logs it and waits for the next tick.
MonitorUpdateError ==
    /\ monitor.pc = "GetMonthToMomentUsage"
    /\ refreshErrors.rate_limit_store < MaxRefreshErrors
    /\ refreshErrors' = [refreshErrors EXCEPT !.rate_limit_store = @ + 1]
    /\ monitor' = [pc |-> "ticker", err |-> Ptr("failed to get monthly usage data")]
    /\ UNCHANGED <<storeVars, handlerVars, unitVars, main, tasks,
                   refresher, portalAppsMu, lookup, limitVars>>

NextLifecycle ==
    \/ InitializeStore
    \/ InitializeStoreError
    \/ StartBackgroundRefresh
    \/ InitialRateLimitCheck
    \/ InitialRateLimitCheckError
    \/ StartRateLimitMonitoring
    \/ RefresherTick
    \/ RefresherFetch
    \/ RefresherFetchError
    \/ RefresherLock
    \/ RefresherAssign
    \/ RefresherUnlock
    \/ RefresherRollup
    \/ MonitorTick
    \/ MonitorUpdate
    \/ MonitorUpdateError

SpecLifecycle == InitLifecycle /\ [][NextLifecycle]_vars

\* The tickers keep firing, the source and the warehouse answer every call
\* one way or the other, and a goroutine that can run does.
FairLifecycle ==
    /\ WF_vars(RefresherTick)
    /\ WF_vars(RefresherFetch \/ RefresherFetchError)
    /\ WF_vars(RefresherLock)
    /\ WF_vars(RefresherAssign)
    /\ WF_vars(RefresherUnlock)
    /\ WF_vars(RefresherRollup)
    /\ WF_vars(MonitorTick)
    /\ WF_vars(MonitorUpdate \/ MonitorUpdateError)

FairSpecLifecycle == SpecLifecycle /\ FairLifecycle

\* The tickers keep firing and a goroutine that can run does; the source
\* and the warehouse answer when they answer.  GetPortalApps queries on
\* context.Background() and GetMonthToMomentUsage is handed
\* context.Background(): no deadline ends a call that gets no answer.
FairOwnSteps ==
    /\ WF_vars(RefresherTick)
    /\ WF_vars(RefresherLock)
    /\ WF_vars(RefresherAssign)
    /\ WF_vars(RefresherUnlock)
    /\ WF_vars(RefresherRollup)
    /\ WF_vars(MonitorTick)

FairSpecUnanswered == SpecLifecycle /\ FairOwnSteps

----------------------------------------------------------------------------
(* updateRateLimitedAccounts and IsAccountRateLimited, statement by statement *)

\* The server serving, the portal-app store holding a fetched map and its
\* rollup, the rate-limit store's first check done on an empty response.
InitLimitCheck ==
    /\ Serving
    /\ portalApps \in OverrideSnapshots
    /\ \E order \in IterationOrders(DOMAIN portalApps) :
           accountRateLimits = setAccountRateLimitsFrom(portalApps, order, <<>>)
    /\ rateLimitedAccounts = {}
    /\ pc = "idle"
    /\ checkReq = Nil
    /\ checkRet = NoReturn
    /\ unitIn = Nil
    /\ unitOut = Nil

\* GetMonthToMomentUsage returns; newRateLimitedAccounts is made empty and
\* the range over the response starts, in the order the runtime picks.
\* rollups is the rollup the range starts beside, and any the portal-app
\* store puts in its place before the range is over.
MonitorFetch ==
    /\ monitor.pc = "GetMonthToMomentUsage"
    /\ \E accountUsage \in UsageResponses :
           \E order \in IterationOrders(DOMAIN accountUsage) :
               monitor' = [pc                     |-> "range",
                           err                    |-> Nil,
                           accountUsage           |-> accountUsage,
                           pending                |-> order,
                           newRateLimitedAccounts |-> {},
                           rollups                |-> {accountRateLimits}]
    /\ UNCHANGED <<storeVars, handlerVars, unitVars, lifeVars, refresher, portalAppsMu,
                   lookup, limitVars>>

\* What the loop body adds to the new map for one account of the response.
rangeBody(accountID, usage) ==
    IF /\ GetAccountPortalApp(accountID).ok
       /\ shouldLimitAccount(
              getRateLimit(Deref(GetAccountPortalApp(accountID).app)), usage)
    THEN {accountID}
    ELSE {}

\* A variant that empties the published map and fills it in place.
MonitorRange_InPlace ==
    /\ monitor.pc = "range"
    /\ monitor.pending # <<>>
    /\ LET accountID == Head(monitor.pending)
           added     == monitor.newRateLimitedAccounts \cup
                            rangeBody(accountID, monitor.accountUsage[accountID])
       IN  /\ monitor' = [monitor EXCEPT !.pending = Tail(@),
                                         !.newRateLimitedAccounts = added]
           /\ rateLimitedAccounts' = added
    /\ UNCHANGED <<portalApps, accountRateLimits, handlerVars, unitVars, lifeVars,
                   refresher, portalAppsMu, lookup, limitVars>>

\* One iteration of the range: look the account up, decide, and add it to
\* newRateLimitedAccounts when it is over its limit.
MonitorRange ==
    /\ monitor.pc = "range"
    /\ monitor.pending # <<>>
    /\ LET accountID == Head(monitor.pending)
       IN  monitor' = [monitor EXCEPT
                          !.pending = Tail(@),
                          !.newRateLimitedAccounts =
                              @ \cup rangeBody(accountID, monitor.accountUsage[accountID])]
    /\ UNCHANGED <<storeVars, handlerVars, unitVars, lifeVars, refresher, portalAppsMu,
                   lookup, limitVars>>

\* rls.rateLimitedAccountsMu.Lock(), the range being over
MonitorLock ==
    /\ monitor.pc = "range"
    /\ monitor.pending = <<>>
    /\ ~rateLimitedAccountsMu.writer
    /\ rateLimitedAccountsMu.readers = 0
    /\ rateLimitedAccountsMu' = [rateLimitedAccountsMu EXCEPT !.writer = TRUE]
    /\ monitor' = [monitor EXCEPT !.pc = "assign"]
    /\ UNCHANGED <<storeVars, handlerVars, unitVars, lifeVars, refresher, portalAppsMu,
                   lookup, limitCheck>>

\* What a check in progress has been given to see once the new map is
\* swapped in: the new map's answer for its account as well.
LimitCheckAfterSwap ==
    IF limitCheck = Nil
    THEN Nil
    ELSE Ptr([Deref(limitCheck) EXCEPT
                 !.seen = @ \cup {Deref(limitCheck).accountID \in
                                      monitor.newRateLimitedAccounts}])

\* A variant that adds the new map's accounts to the published ones.
MonitorAssign_Union ==
    /\ monitor.pc = "assign"
    /\ rateLimitedAccounts' = rateLimitedAccounts \cup monitor.newRateLimitedAccounts
    /\ limitCheck' = LimitCheckAfterSwap
    /\ monitor' = [monitor EXCEPT !.pc = "Unlock"]
    /\ UNCHANGED <<portalApps, accountRateLimits, handlerVars, unitVars, lifeVars,
                   refresher, portalAppsMu, lookup, rateLimitedAccountsMu>>

\* rls.rateLimitedAccounts = newRateLimitedAccounts
MonitorAssign ==
    /\ monitor.pc = "assign"
    /\ rateLimitedAccounts' = monitor.newRateLimitedAccounts
    /\ limitCheck' = LimitCheckAfterSwap
    /\ monitor' = [monitor EXCEPT !.pc = "Unlock"]
    /\ UNCHANGED <<portalApps, accountRateLimits, handlerVars, unitVars, lifeVars,
                   refresher, portalAppsMu, lookup, rateLimitedAccountsMu>>

\* rls.rateLimitedAccountsMu.Unlock(); updateRateLimitedAccounts returns nil
\* and startRateLimitMonitoring waits for the next tick.
MonitorUnlock ==
    /\ monitor.pc = "Unlock"
    /\ rateLimitedAccountsMu' = [rateLimitedAccountsMu EXCEPT !.writer = FALSE]
    /\ monitor' = [pc |-> "ticker", err |-> Nil]
    /\ UNCHANGED <<storeVars, handlerVars, unitVars, lifeVars, refresher, portalAppsMu,
                   lookup, limitCheck>>

\* A goroutine calls IsAccountRateLimited.  pre and seen are what the
\* published map answers for the account at the call, and at the call or any
\* swap after it.
LimitCheckCall ==
    /\ main.pc = "Serve"
    /\ limitCheck = Nil
    /\ \E accountID \in AccountIDs :
           limitCheck' = Ptr([pc        |-> "RLock",
                              accountID |-> accountID,
                              pre       |-> IsAccountRateLimited(accountID),
                              seen      |-> {IsAccountRateLimited(accountID)},
                              ret       |-> Nil])
    /\ UNCHANGED <<storeVars, handlerVars, unitVars, lifeVars, refresher, portalAppsMu,
                   lookup, monitor, rateLimitedAccountsMu>>

\* rls.rateLimitedAccountsMu.RLock()
LimitCheckRLock ==
    /\ limitCheck # Nil
    /\ Deref(limitCheck).pc = "RLock"
    /\ ~rateLimitedAccountsMu.writer
    /\ rateLimitedAccountsMu' = [rateLimitedAccountsMu EXCEPT !.readers = @ + 1]
    /\ limitCheck' = Ptr([Deref(limitCheck) EXCEPT !.pc = "read"])
    /\ UNCHANGED <<storeVars, handlerVars, unitVars, lifeVars, refresher, portalAppsMu,
                   lookup, monitor>>

\* _, ok := rls.rateLimitedAccounts[accountID]
LimitCheckRead ==
    /\ limitCheck # Nil
    /\ Deref(limitCheck).pc = "read"
    /\ limitCheck' = Ptr([Deref(limitCheck) EXCEPT
                             !.pc  = "RUnlock",
                             !.ret = Ptr(IsAccountRateLimited(Deref(limitCheck).accountID))])
    /\ UNCHANGED <<storeVars, handlerVars, unitVars, lifeVars, refresher, portalAppsMu,
                   lookup, monitor, rateLimitedAccountsMu>>

\* defer rls.rateLimitedAccountsMu.RUnlock()
LimitCheckRUnlock ==
    /\ limitCheck # Nil
    /\ Deref(limitCheck).pc = "RUnlock"
    /\ rateLimitedAccountsMu' = [rateLimitedAccountsMu EXCEPT !.readers = @ - 1]
    /\ limitCheck' = Ptr([Deref(limitCheck) EXCEPT !.pc = "return"])
    /\ UNCHANGED <<storeVars, handlerVars, unitVars, lifeVars, refresher, portalAppsMu,
                   lookup, monitor>>

\* The caller takes the result.
LimitCheckReturn ==
    /\ limitCheck # Nil
    /\ Deref(limitCheck).pc = "return"
    /\ limitCheck' = Nil
    /\ UNCHANGED <<storeVars, handlerVars, unitVars, lifeVars, refresher, portalAppsMu,
                   lookup, monitor, rateLimitedAccountsMu>>

NextLimitCheck ==
    \/ MonitorTick
    \/ MonitorFetch
    \/ MonitorUpdateError
    \/ MonitorRange
    \/ MonitorLock
    \/ MonitorAssign
    \/ MonitorUnlock
    \/ LimitCheckCall
    \/ LimitCheckRLock
    \/ LimitCheckRead
    \/ LimitCheckRUnlock
    \/ LimitCheckReturn

SpecLimitCheck == InitLimitCheck /\ [][NextLimitCheck]_vars

----------------------------------------------------------------------------
(* The process is told to stop *)

\* The process has not been stopped.
Running == main.pc # "exited"

\* SIGTERM or SIGINT reaches the process.  main registers no handler for
\* either (no signal.Notify, no GracefulStop) and neither goroutine takes a
\* context, so the runtime ends the process where it stands: the goroutines
\* and the RPC in flight end with it.
Terminate ==
    /\ main.pc = "Serve"
    /\ main' = [main EXCEPT !.pc = "exited"]
    /\ tasks' = {}
    /\ UNCHANGED <<storeVars, handlerVars, unitVars, refreshErrors, lockVars>>

NextShutdown ==
    \/ Running /\ RefresherTick
    \/ Running /\ RefresherFetch
    \/ Running /\ RefresherLock
    \/ Running /\ RefresherAssign
    \/ Running /\ RefresherUnlock
    \/ Running /\ RefresherRollup
    \/ Running /\ MonitorTick
    \/ Running /\ MonitorUpdate
    \/ Running /\ Receive
    \/ Running /\ HandleCheck
    \/ Running /\ Return
    \/ Terminate

SpecShutdown == Init /\ [][NextShutdown]_vars

----------------------------------------------------------------------------
(* setAccountRateLimits on the maps a DataSource may hand to the store *)

\* RateLimits a portal app may carry.
SourceRateLimits ==
    {[PlanType |-> PlanFree_DatabaseType, MonthlyUserLimit |-> 0],
     [PlanType |-> PlanUnlimited_DatabaseType, MonthlyUserLimit |-> FreeMonthlyRelays \div 2],
     [PlanType |-> PlanUnlimited_DatabaseType, MonthlyUserLimit |-> UserLimit]}

\* The portal apps a DataSource may return under an ID: the interface lets
\* each app carry its own account and its own RateLimit.
SourceApps(id) ==
    UNION {{[ID |-> id, AccountID |-> accountID, PlanType |-> PlanUnlimited_DatabaseType,
             Auth |-> Nil, RateLimit |-> Nil]} \cup
           {[ID |-> id, AccountID |-> accountID, PlanType |-> rateLimit.PlanType,
             Auth |-> Nil, RateLimit |-> Ptr(rateLimit)] : rateLimit \in SourceRateLimits} :
              accountID \in AccountIDs}

\* The maps PortalAppID -> PortalApp over the IDs "a" and "b".
SourceMaps ==
    UNION {{apps \in [ids -> UNION {SourceApps(id) : id \in ids}] :
                \A id \in ids : apps[id].ID = id} :
              ids \in SUBSET {<<"a">>, <<"b">>}}

InitRollup ==
    /\ StoresUnused
    /\ \E apps \in SourceMaps : unitIn = Ptr([portalApps |-> apps])
    /\ unitOut = Nil

\* setAccountRateLimits run by two stores, each newly made (its rollup
\* empty), on the same fetched map; each range takes the order the runtime
\* gives it.
RollupTwice ==
    /\ unitIn # Nil
    /\ unitOut = Nil
    /\ LET apps == Deref(unitIn).portalApps
       IN  \E first \in IterationOrders(DOMAIN apps), second \in IterationOrders(DOMAIN apps) :
               unitOut' = Ptr([first  |-> setAccountRateLimitsFrom(apps, first, <<>>),
                               second |-> setAccountRateLimitsFrom(apps, second, <<>>)])
    /\ UNCHANGED <<storeVars, handlerVars, unitIn, lifeVars, lockVars>>

SpecRollup == InitRollup /\ [][RollupTwice]_vars

----------------------------------------------------------------------------
(* Check, step by step, beside the refresh *)

\* The probes stepped through: GET /v1/a and /v1/b, without an Authorization
\* header, with the secret, and with a wrong key.
StepRequests ==
    {[Path |-> p, Headers |-> h] :
        p \in {<<"/", "v", "1", "/", "a">>, <<"/", "v", "1", "/", "b">>},
        h \in HeaderMaps({authHeaderKey}, {}, {Secret, <<"w">>})}

\* Check up to the extraction of the portal-app ID.  The frame of the call
\* holds its locals; pre and seen are what the published map answers for the
\* ID at this point, and at this point or any swap after it; auth and
\* rateLimit are the fields the later steps read.
StepBegin ==
    /\ main.pc = "Serve"
    /\ lookup = Nil
    /\ \E req \in StepRequests :
       \E order \in IterationOrders(DOMAIN req.Headers) :
           LET headers   == convertMapToHeader(req.Headers, order)
               extracted == extractPortalAppID(headers, req.Path)
               frame     == [pc          |-> "getPortalApp",
                             headers     |-> headers,
                             portalAppID |-> extracted.id,
                             pre         |-> GetPortalApp(extracted.id),
                             seen        |-> {GetPortalApp(extracted.id)},
                             portalApp   |-> Nil,
                             auth        |-> Nil,
                             rateLimit   |-> Nil,
                             resp        |-> Nil]
           IN  lookup' =
                   IF extracted.err # Nil
                   THEN Ptr([frame EXCEPT
                                !.pc   = "return",
                                !.resp = Ptr(getDeniedCheckResponse(
                                                 Deref(extracted.err),
                                                 StatusCode_BadRequest))])
                   ELSE Ptr(frame)
    /\ UNCHANGED <<storeVars, handlerVars, unitVars, monitor, lifeVars, refresher,
                   portalAppsMu, limitVars>>

\* portalApp, ok := a.getPortalApp(portalAppID): the read under RLock, which
\* waits while the refresher holds the write lock.
StepGetPortalApp ==
    /\ lookup # Nil
    /\ Deref(lookup).pc = "getPortalApp"
    /\ ~portalAppsMu.writer
    /\ LET got == GetPortalApp(Deref(lookup).portalAppID)
       IN  lookup' =
               IF ~got.ok
               THEN Ptr([Deref(lookup) EXCEPT
                            !.pc   = "return",
                            !.resp = Ptr(getDeniedCheckResponse(
                                             "portal app not found",
                                             StatusCode_NotFound))])
               ELSE Ptr([Deref(lookup) EXCEPT
                            !.pc        = "checkPortalAppAuthorized",
                            !.portalApp = got.app])
    /\ UNCHANGED <<storeVars, handlerVars, unitVars, monitor, lifeVars, refresher,
                   portalAppsMu, limitVars>>

\* a.checkPortalAppAuthorized(headers, portalApp)
StepAuthorize ==
    /\ lookup # Nil
    /\ Deref(lookup).pc = "checkPortalAppAuthorized"
    /\ LET portalApp  == Deref(Deref(lookup).portalApp)
           authorized == checkPortalAppAuthorized(Deref(lookup).headers, portalApp)
       IN  lookup' =
               IF authorized.err # Nil
               THEN Ptr([Deref(lookup) EXCEPT
                            !.pc   = "return",
                            !.auth = Ptr(portalApp.Auth),
                            !.resp = Ptr(getDeniedCheckResponse(
                                             Deref(authorized.err),
                                             StatusCode_Unauthorized))])
               ELSE Ptr([Deref(lookup) EXCEPT
                            !.pc   = "checkAccountRateLimited",
                            !.auth = Ptr(portalApp.Auth)])
    /\ UNCHANGED <<storeVars, handlerVars, unitVars, monitor, lifeVars, refresher,
                   portalAppsMu, limitVars>>

\* A variant that looks the app up again for the rate-limit step (an app
\* that has gone has no rate limit).
StepRateLimit_Reread ==
    /\ lookup # Nil
    /\ Deref(lookup).pc = "checkAccountRateLimited"
    /\ ~portalAppsMu.writer
    /\ LET got       == GetPortalApp(Deref(lookup).portalAppID)
           portalApp == IF got.ok
                        THEN Deref(got.app)
                        ELSE [Deref(Deref(lookup).portalApp) EXCEPT !.RateLimit = Nil]
           limited   == checkAccountRateLimited(portalApp)
       IN  lookup' =
               IF limited.err # Nil
               THEN Ptr([Deref(lookup) EXCEPT
                            !.pc        = "return",
                            !.rateLimit = Ptr(portalApp.RateLimit),
                            !.resp      = Ptr(getDeniedCheckResponse(
                                                  accountRateLimitMessage,
                                                  StatusCode_TooManyRequests))])
               ELSE Ptr([Deref(lookup) EXCEPT
                            !.pc        = "getHTTPHeaders",
                            !.rateLimit = Ptr(portalApp.RateLimit)])
    /\ UNCHANGED <<storeVars, handlerVars, unitVars, monitor, lifeVars, refresher,
                   portalAppsMu, limitVars>>

\* a.checkAccountRateLimited(portalApp)
StepRateLimit ==
    /\ lookup # Nil
    /\ Deref(lookup).pc = "checkAccountRateLimited"
    /\ LET portalApp == Deref(Deref(lookup).portalApp)
           limited   == checkAccountRateLimited(portalApp)
       IN  lookup' =
               IF limited.err # Nil
               THEN Ptr([Deref(lookup) EXCEPT
                            !.pc        = "return",
                            !.rateLimit = Ptr(portalApp.RateLimit),
                            !.resp      = Ptr(getDeniedCheckResponse(
                                                  accountRateLimitMessage,
                                                  StatusCode_TooManyRequests))])
               ELSE Ptr([Deref(lookup) EXCEPT
                            !.pc        = "getHTTPHeaders",
                            !.rateLimit = Ptr(portalApp.RateLimit)])
    /\ UNCHANGED <<storeVars, handlerVars, unitVars, monitor, lifeVars, refresher,
                   portalAppsMu, limitVars>>

\* httpHeaders := a.getHTTPHeaders(portalApp) and the OK response.
StepRespond ==
    /\ lookup # Nil
    /\ Deref(lookup).pc = "getHTTPHeaders"
    /\ lookup' = Ptr([Deref(lookup) EXCEPT
                         !.pc   = "return",
                         !.resp = Ptr(getOKCheckResponse(
                                          getHTTPHeaders(Deref(Deref(lookup).portalApp))))])
    /\ UNCHANGED <<storeVars, handlerVars, unitVars, monitor, lifeVars, refresher,
                   portalAppsMu, limitVars>>

\* Envoy takes the response.
StepReturn ==
    /\ lookup # Nil
    /\ Deref(lookup).pc = "return"
    /\ lookup' = Nil
    /\ UNCHANGED <<storeVars, handlerVars, unitVars, monitor, lifeVars, refresher,
                   portalAppsMu, limitVars>>

\* The serving process between two runs of the rate-limit monitor: the set
\* is one the monitor may have published, some accounts of the rollup.
InitCheckSteps ==
    /\ Serving
    /\ portalApps \in Snapshots
    /\ \E order \in IterationOrders(DOMAIN portalApps) :
           accountRateLimits = setAccountRateLimitsFrom(portalApps, order, <<>>)
    /\ rateLimitedAccounts \in SUBSET DOMAIN accountRateLimits
    /\ pc = "idle"
    /\ checkReq = Nil
    /\ checkRet = NoReturn
    /\ unitIn = Nil
    /\ unitOut = Nil

NextCheckSteps ==
    \/ RefresherTick
    \/ RefresherFetch
    \/ RefresherFetchError
    \/ RefresherLock
    \/ RefresherAssign
    \/ RefresherUnlock
    \/ RefresherRollup
    \/ StepBegin
    \/ StepGetPortalApp
    \/ StepAuthorize
    \/ StepRateLimit
    \/ StepRespond
    \/ StepReturn

SpecCheckSteps == InitCheckSteps /\ [][NextCheckSteps]_vars

----------------------------------------------------------------------------
(* Both stores with their readers *)

\* The two stores share no lock and no field that is written, so they are
\* stepped one at a time: the portal-app store and its reader while the
\* rate-limit store rests, and the reverse.
PortalAppStoreTurn == monitor.pc = "ticker" /\ limitCheck = Nil

RateLimitStoreTurn == refresher.pc = "ticker" /\ lookup = Nil

NextOffPath ==
    \/ PortalAppStoreTurn /\ RefresherTick
    \/ PortalAppStoreTurn /\ RefresherFetch
    \/ PortalAppStoreTurn /\ RefresherFetchError
    \/ PortalAppStoreTurn /\ RefresherLock
    \/ PortalAppStoreTurn /\ RefresherAssign
    \/ PortalAppStoreTurn /\ RefresherUnlock
    \/ PortalAppStoreTurn /\ RefresherRollup
    \/ PortalAppStoreTurn /\ LookupCall
    \/ PortalAppStoreTurn /\ LookupRLock
    \/ PortalAppStoreTurn /\ LookupRead
    \/ PortalAppStoreTurn /\ LookupRUnlock
    \/ PortalAppStoreTurn /\ LookupReturn
    \/ RateLimitStoreTurn /\ MonitorTick
    \/ RateLimitStoreTurn /\ MonitorFetch
    \/ RateLimitStoreTurn /\ MonitorUpdateError
    \/ RateLimitStoreTurn /\ MonitorRange
    \/ RateLimitStoreTurn /\ MonitorLock
    \/ RateLimitStoreTurn /\ MonitorAssign
    \/ RateLimitStoreTurn /\ MonitorUnlock
    \/ RateLimitStoreTurn /\ LimitCheckCall
    \/ RateLimitStoreTurn /\ LimitCheckRLock
    \/ RateLimitStoreTurn /\ LimitCheckRead
    \/ RateLimitStoreTurn /\ LimitCheckRUnlock
    \/ RateLimitStoreTurn /\ LimitCheckReturn

SpecOffPath == Init /\ [][NextOffPath]_vars

----------------------------------------------------------------------------
(* updateRateLimitedAccounts beside the portal-app store's refresh *)

\* What a range in progress has run beside once the rollup is rateLimits.
MonitorAfterRollup(rateLimits) ==
    IF monitor.pc = "range"
    THEN [monitor EXCEPT !.rollups = @ \cup {rateLimits}]
    ELSE monitor

\* portalAppStore.refreshStore, the source call succeeding, over a database
\* that also holds accounts with a limit of their own.
RefreshStoreBesideMonitor ==
    /\ "startBackgroundRefresh" \in tasks
    /\ \E apps \in OverrideSnapshots :
           /\ portalApps' = apps
           /\ \E order \in IterationOrders(DOMAIN apps) :
                  accountRateLimits' = setAccountRateLimits(apps, order)
    /\ monitor' = MonitorAfterRollup(accountRateLimits')
    /\ UNCHANGED <<rateLimitedAccounts, handlerVars, unitVars, lifeVars, refresher,
                   portalAppsMu, lookup, limitVars>>

NextBesideRefresh ==
    \/ RefreshStoreBesideMonitor
    \/ MonitorTick
    \/ MonitorFetch
    \/ MonitorUpdateError
    \/ MonitorRange
    \/ MonitorLock
    \/ MonitorAssign
    \/ MonitorUnlock

SpecBesideRefresh == InitLimitCheck /\ [][NextBesideRefresh]_vars

----------------------------------------------------------------------------
(* updateRateLimitedAccounts with the gauges it sets *)

\* The series of the two gauge vectors, each a record of its labels and its
\* value, as the registry holds them; none before the first refresh.
GaugeSeries(name) ==
    IF unitOut = Nil THEN {} ELSE Deref(unitOut)[name]

\* GaugeVec.With(labels).Set(value): the series of those labels is made if
\* there is none and given the value; every other series stays.
GaugeSet(series, labels, value) ==
    {s \in series : s.labels # labels} \cup {[labels |-> labels, value |-> value]}

\* metrics.UpdateAccountUsage for every account of the response that has a
\* portal app.  No two accounts share a series, so the order of the range
\* makes no difference.
RECURSIVE UpdateAccountUsage(_, _, _)
UpdateAccountUsage(series, accounts, accountUsage) ==
    IF accounts = {}
    THEN series
    ELSE LET accountID == CHOOSE a \in accounts : TRUE
             portalApp == Deref(GetAccountPortalApp(accountID).app)
         IN  UpdateAccountUsage(
                 GaugeSet(series,
                          [account_id |-> accountID,
                           plan_type  |-> portalApp.PlanType,
                           rate_limit |-> getRateLimit(portalApp)],
                          accountUsage[accountID]),
                 accounts \ {accountID}, accountUsage)

\* metrics.UpdateRateLimitedAccounts for every account the refresh limits;
\* monthly_usage is the usage written with two decimals, one text per usage.
RECURSIVE UpdateRateLimitedAccountsGauge(_, _, _)
UpdateRateLimitedAccountsGauge(series, accounts, accountUsage) ==
    IF accounts = {}
    THEN series
    ELSE LET accountID == CHOOSE a \in accounts : TRUE
             portalApp == Deref(GetAccountPortalApp(accountID).app)
         IN  UpdateRateLimitedAccountsGauge(
                 GaugeSet(series,
                          [account_id    |-> accountID,
                           plan_type     |-> portalApp.PlanType,
                           monthly_usage |-> accountUsage[accountID],
                           rate_limit    |-> getRateLimit(portalApp)],
                          accountUsage[accountID]),
                 accounts \ {accountID}, accountUsage)

\* rateLimitStore.updateRateLimitedAccounts, the warehouse call succeeding:
\* the new set, and the gauges set on the way.  accountUsage is kept as the
\* response of the latest refresh.
UpdateWithGauges ==
    /\ "startRateLimitMonitoring" \in tasks
    /\ \E accountUsage \in UsageResponses :
           LET known == {a \in DOMAIN accountUsage : GetAccountPortalApp(a).ok}
           IN  /\ rateLimitedAccounts' = newRateLimitedAccounts(accountUsage)
               /\ unitOut' =
                      Ptr([accountUsage |-> accountUsage,
                           accountUsageTotal |->
                               UpdateAccountUsage(
                                   GaugeSeries("accountUsageTotal"), known, accountUsage),
                           rateLimitedAccountsTotal |->
                               UpdateRateLimitedAccountsGauge(
                                   GaugeSeries("rateLimitedAccountsTotal"),
                                   newRateLimitedAccounts(accountUsage), accountUsage)])
    /\ UNCHANGED <<portalApps, accountRateLimits, handlerVars, unitIn, lifeVars, lockVars>>

NextGauges ==
    \/ UpdateWithGauges
    \/ UpdateRateLimitedAccountsError

SpecGauges == InitLimitCheck /\ [][NextGauges]_vars

----------------------------------------------------------------------------
(* Vocabulary of the properties *)

\* The step in which the handler runs Check.
Handled == pc = "handling" /\ pc' = "done"

Denied(ret) == ret.resp.HttpResponse.kind = "DeniedResponse"

\* The HTTP status of a denied response; 0 for an OK response.
HttpCode(ret) ==
    IF Denied(ret) THEN ret.resp.HttpResponse.Status.Code ELSE 0

\* The verdict of a Check call: HTTP status and status message.
Verdict(ret) == [code |-> HttpCode(ret), message |-> ret.resp.Status.Message]

RequiresKey(portalApp) ==
    /\ portalApp.Auth # Nil
    /\ Deref(portalApp.Auth).APIKey # EmptyString

CaseInsensitiveEqual(k1, k2) ==
    /\ Len(k1) = Len(k2)
    /\ \A i \in 1..Len(k1) : ToLower(k1[i]) = ToLower(k2[i])

\* The first value an http.Header holds under a name, compared without
\* regard to case: a pointer to it, or nil when the header is absent.
FirstValue(headers, name) ==
    IF \E k \in DOMAIN headers : CaseInsensitiveEqual(k, name) /\ Len(headers[k]) > 0
    THEN Ptr(headers[CHOOSE k \in DOMAIN headers :
                         CaseInsensitiveEqual(k, name) /\ Len(headers[k]) > 0][1])
    ELSE Nil

\* The first value a header map holds under a name when its entries are
\* visited in the given order.
FirstVisited(headersMap, order, name) ==
    IF \E i \in 1..Len(order) : CaseInsensitiveEqual(order[i], name)
    THEN Ptr(headersMap[order[CHOOSE i \in 1..Len(order) :
                 /\ CaseInsensitiveEqual(order[i], name)
                 /\ \A j \in 1..(i - 1) : ~CaseInsensitiveEqual(order[j], name)]])
    ELSE Nil

----------------------------------------------------------------------------
(* C1 *)

\* The verdict the six checks give when taken in their order on a probe,
\* its converted headers and the stores as they are.
C1_Expected(req, headers) ==
    IF req = Nil
    THEN [code |-> 400, message |-> "HTTP request not found"]
    ELSE IF Deref(req).Path = EmptyString
    THEN [code |-> 400, message |-> "path not provided"]
    ELSE
    LET extracted == extractPortalAppID(headers, Deref(req).Path)
    IN  IF extracted.err # Nil
        THEN [code |-> 400, message |-> "portal app ID not provided in header or path"]
        ELSE IF extracted.id \notin DOMAIN portalApps
        THEN [code |-> 404, message |-> "portal app not found"]
        ELSE
        LET portalApp == portalApps[extracted.id]
        IN  IF RequiresKey(portalApp) /\ authorizeRequest(headers, portalApp) # Nil
            THEN [code |-> 401, message |-> "unauthorized"]
            ELSE IF /\ portalApp.RateLimit # Nil
                    /\ portalApp.AccountID \in rateLimitedAccounts
            THEN [code |-> 429, message |-> accountRateLimitMessage]
            ELSE [code |-> 0, message |-> "ok"]

\* C1: every Check call answers with the denial of the first of the six
\* checks (HTTP sub-message, path, portal-app ID, lookup, API key, rate
\* limit) that fails on the probe and the stores as they are when it runs,
\* and with OK only when all six pass.
C1_FirstFailureWins ==
    [][Handled =>
          Verdict(Deref(checkRet')) =
              C1_Expected(Deref(checkReq), Deref(checkRet').headers)]_vars

\* A known app sent with a bad key while its account is rate-limited was
\* denied 401.
C1_Witness ==
    /\ pc = "done"
    /\ HttpCode(Deref(checkRet)) = 401
    /\ Deref(Deref(checkRet).portalApp).RateLimit # Nil
    /\ Deref(Deref(checkRet).portalApp).AccountID \in rateLimitedAccounts
    /\ Deref(Deref(checkRet).portalApp).ID \in DOMAIN portalApps
    /\ portalApps[Deref(Deref(checkRet).portalApp).ID] = Deref(Deref(checkRet).portalApp)

----------------------------------------------------------------------------
(* C2 *)

----------------------------------------------------------------------------
(* C3 *)

----------------------------------------------------------------------------
(* C4 *)

\* The key an Authorization value sends: the value without a leading
\* "Bearer " when it is longer than that prefix, else the value itself.
C4_KeySent(value) ==
    IF /\ Len(value) > 7
       /\ SubSeq(value, 1, 7) = <<"B", "e", "a", "r", "e", "r", " ">>
    THEN SubSeq(value, 8, Len(value))
    ELSE value

\* C4 as stated: for an app whose Auth is an API key, the authorizer
\* succeeds exactly when the first value of the Authorization header (found
\* without regard to the case of its name) equals the stored secret.
C4_SucceedsIffValueEqualsSecret ==
    unitOut # Nil =>
        LET value == FirstVisited(Deref(unitIn).Headers, Deref(unitOut).order,
                                  <<"A", "u", "t", "h", "o", "r", "i", "z", "a", "t", "i", "o", "n">>)
        IN  (Deref(unitOut).ret = Nil) <=>
                (value # Nil /\ Deref(value) = Deref(unitIn).APIKey)

\* C4, amended: for an app whose Auth is a non-empty API key, the authorizer
\* succeeds exactly when the Authorization header (found without regard to
\* the case of its name) is present and its first value, with a leading
\* "Bearer " removed when the value is longer than that prefix, equals the
\* stored secret; in every other case it fails with errUnauthorized.
C4_SucceedsIffKeySentEqualsSecret ==
    unitOut # Nil =>
        LET value == FirstVisited(Deref(unitIn).Headers, Deref(unitOut).order,
                                  <<"A", "u", "t", "h", "o", "r", "i", "z", "a", "t", "i", "o", "n">>)
            ret   == Deref(unitOut).ret
        IN  /\ (ret = Nil) <=>
                   (value # Nil /\ C4_KeySent(Deref(value)) = Deref(unitIn).APIKey)
            /\ ret # Nil => ret = <<"unauthorized">>

\* The authorizer accepted "Bearer s", sent under the lower-case name
\* "authorization", for the stored secret "s".
C4_Witness ==
    /\ unitOut # Nil
    /\ Deref(unitOut).ret = Nil
    /\ Deref(unitIn).APIKey = <<"s">>
    /\ lowerAuthKey \in DOMAIN Deref(unitIn).Headers
    /\ DOMAIN Deref(unitIn).Headers \cap AuthKeys = {lowerAuthKey}
    /\ Deref(unitIn).Headers[lowerAuthKey] = <<"B", "e", "a", "r", "e", "r", " ", "s">>

----------------------------------------------------------------------------
(* C5 *)

\* The one response a key-gated app's denial may be.
C5_Unauthorized ==
    [Status       |-> [Code |-> 7, Message |-> "unauthorized"],
     HttpResponse |-> [kind   |-> "DeniedResponse",
                       Status |-> [Code |-> 401],
                       Body   |-> "{\"code\": 401, \"message\": \"unauthorized\"}"]]

\* C5: when the app a Check call found requires an API key and the
\* Authorization header is absent, empty, or carries a key other than the
\* stored secret, the whole response is one and the same value (status
\* PERMISSION_DENIED, message "unauthorized", HTTP 401, the same body),
\* whichever of the three causes applies.
C5_DenialOpaque ==
    (pc = "done" /\ Deref(checkRet).portalApp # Nil
                 /\ RequiresKey(Deref(Deref(checkRet).portalApp))) =>
        LET ret   == Deref(checkRet)
            value == FirstValue(ret.headers, authHeaderKey)
            absent == value = Nil
            empty  == value # Nil /\ Deref(value) = EmptyString
            wrong  == /\ value # Nil
                      /\ Deref(value) # EmptyString
                      /\ C4_KeySent(Deref(value)) # Deref(Deref(ret.portalApp).Auth).APIKey
        IN  /\ (absent \/ empty \/ wrong) => ret.resp = C5_Unauthorized
            /\ HttpCode(ret) = 401 => (absent \/ empty \/ wrong)

\* A key-gated app's probe without an Authorization header was denied 401.
C5_Witness ==
    /\ pc = "done"
    /\ Deref(checkRet).portalApp # Nil
    /\ RequiresKey(Deref(Deref(checkRet).portalApp))
    /\ FirstValue(Deref(checkRet).headers, authHeaderKey) = Nil
    /\ HttpCode(Deref(checkRet)) = 401

----------------------------------------------------------------------------
(* C6 *)

\* C6: when the app a Check call found has no Auth, or an Auth whose secret
\* is the empty string, the call does not run the authorizer and is not
\* denied 401, whatever Authorization header the probe carries.
C6_AuthorizerSkipped ==
    (pc = "done" /\ Deref(checkRet).portalApp # Nil) =>
        LET ret       == Deref(checkRet)
            portalApp == Deref(ret.portalApp)
        IN  (portalApp.Auth = Nil \/ Deref(portalApp.Auth).APIKey = <<>>) =>
                /\ \A i \in DOMAIN ret.calls : ret.calls[i] # "authorizeRequest"
                /\ HttpCode(ret) # 401

\* An app whose Auth holds the empty secret was answered OK although the
\* probe carried the Authorization value "w".
C6_Witness ==
    /\ pc = "done"
    /\ Deref(checkRet).portalApp # Nil
    /\ Deref(Deref(checkRet).portalApp).Auth # Nil
    /\ Deref(Deref(Deref(checkRet).portalApp).Auth).APIKey = <<>>
    /\ FirstValue(Deref(checkRet).headers, authHeaderKey) = <<(<<"w">>)>>
    /\ ~Denied(Deref(checkRet))

----------------------------------------------------------------------------
(* C7 *)

\* C7: a Check call whose extracted portal-app ID is not a key of the
\* portal-app store's snapshot as the call runs answers Denied, HTTP 404,
\* message "portal app not found", body {"code": 404, "message": "portal
\* app not found"}, and runs neither the authorizer nor the rate-limit
\* store: its only call is the lookup.
C7_MissIs404 ==
    [][(Handled /\ Deref(checkReq) # Nil
                /\ Deref(Deref(checkReq)).Path # EmptyString) =>
          LET ret       == Deref(checkRet')
              extracted == extractPortalAppID(ret.headers, Deref(Deref(checkReq)).Path)
          IN  (extracted.err = Nil /\ extracted.id \notin DOMAIN portalApps) =>
                  /\ ret.resp =
                         [Status       |-> [Code |-> 7, Message |-> "portal app not found"],
                          HttpResponse |-> [kind   |-> "DeniedResponse",
                                            Status |-> [Code |-> 404],
                                            Body   |-> "{\"code\": 404, \"message\": \"portal app not found\"}"]]
                  /\ ret.calls = <<"GetPortalApp">>]_vars

\* A probe naming the unknown app "c" and carrying a wrong key was denied
\* 404 while some account was rate-limited.
C7_Witness ==
    /\ pc = "done"
    /\ HttpCode(Deref(checkRet)) = 404
    /\ Deref(checkRet).portalAppID = <<"c">>
    /\ FirstValue(Deref(checkRet).headers, authHeaderKey) = <<(<<"w">>)>>
    /\ rateLimitedAccounts # {}

----------------------------------------------------------------------------
(* C8 *)

\* C8: every Check call returns a nil error and a response that is either
\* OK (status OK, message "ok") or Denied with status PERMISSION_DENIED, an
\* HTTP status among 400, 401, 404 and 429, and the body
\* {"code": <http status>, "message": "<status message>"}.
C8_WellFormed ==
    pc = "done" =>
        LET ret  == Deref(checkRet)
            resp == ret.resp
        IN  /\ ret.err = Nil
            /\ \/ /\ resp.HttpResponse.kind = "OkResponse"
                  /\ resp.Status = [Code |-> 0, Message |-> "ok"]
               \/ /\ resp.HttpResponse.kind = "DeniedResponse"
                  /\ resp.Status.Code = 7
                  /\ resp.HttpResponse.Status.Code \in {400, 401, 404, 429}
                  /\ resp.HttpResponse.Body =
                         "{\"code\": " \o ToString(resp.HttpResponse.Status.Code)
                             \o ", \"message\": \"" \o resp.Status.Message \o "\"}"

\* A probe was denied 429 with a well-formed body.
C8_Witness ==
    /\ pc = "done"
    /\ Deref(checkRet).err = Nil
    /\ Denied(Deref(checkRet))
    /\ Deref(checkRet).resp.HttpResponse.Body =
           "{\"code\": 429, \"message\": \"This account is rate limited. To upgrade your plan or modify your account settings, log in to your account at https://portal.grove.city/\"}"

----------------------------------------------------------------------------
(* C9 *)

\* The first segment of a path after "/v1/": a pointer to it, or nil when
\* the path does not start with "/v1/" or the segment is empty.
PathSegment(path) ==
    IF /\ Len(path) > 4
       /\ SubSeq(path, 1, 4) = <<"/", "v", "1", "/">>
       /\ path[5] # "/"
    THEN LET end == CHOOSE n \in 5..Len(path) :
                        /\ \A i \in 5..n : path[i] # "/"
                        /\ n = Len(path) \/ path[n + 1] = "/"
         IN  Ptr(SubSeq(path, 5, end))
    ELSE Nil

\* The 400 denial carrying a message.
C9_BadRequest(message) ==
    [Status       |-> [Code |-> 7, Message |-> message],
     HttpResponse |-> [kind   |-> "DeniedResponse",
                       Status |-> [Code |-> 400],
                       Body   |-> "{\"code\": 400, \"message\": \"" \o message \o "\"}"]]

\* C9: a Check call on a probe without HTTP sub-message answers 400 "HTTP
\* request not found"; on an empty path 400 "path not provided"; on a probe
\* with neither a non-empty Portal-Application-ID header nor an ID in a
\* /v1/ path 400 "portal app ID not provided in header or path"; and in
\* the three cases it has called no store.
C9_EarlyFailures ==
    pc = "done" =>
        LET req == Deref(checkReq)
            ret == Deref(checkRet)
        IN  IF req = Nil
            THEN /\ ret.resp = C9_BadRequest("HTTP request not found")
                 /\ ret.calls = <<>>
            ELSE IF Deref(req).Path = <<>>
            THEN /\ ret.resp = C9_BadRequest("path not provided")
                 /\ ret.calls = <<>>
            ELSE IF /\ \A k \in DOMAIN Deref(req).Headers :
                           CaseInsensitiveEqual(k, reqHeaderPortalAppID) =>
                               Deref(req).Headers[k] = <<>>
                    /\ PathSegment(Deref(req).Path) = Nil
            THEN /\ ret.resp = C9_BadRequest("portal app ID not provided in header or path")
                 /\ ret.calls = <<>>
            ELSE /\ HttpCode(ret) # 400
                 /\ ret.calls # <<>>

\* A probe with an empty path and the header of a known app was denied 400
\* "path not provided".
C9_Witness ==
    /\ pc = "done"
    /\ Deref(checkReq) # Nil
    /\ Deref(Deref(checkReq)).Path = <<>>
    /\ lowerPortalAppIDKey \in DOMAIN Deref(Deref(checkReq)).Headers
    /\ Deref(Deref(checkReq)).Headers[lowerPortalAppIDKey] \in DOMAIN portalApps
    /\ Deref(checkRet).resp.Status.Message = "path not provided"

----------------------------------------------------------------------------
(* C10 *)

\* C10: when the Portal-Application-ID header (found without regard to the
\* case of its name) is present and its first value is not empty, the
\* extractor returns that value, whatever the path; when the header is
\* absent or its first value is empty, it returns the first segment after
\* "/v1/" of the path, or fails when there is none.
C10_HeaderFirst ==
    unitOut # Nil =>
        LET value == FirstVisited(Deref(unitIn).Headers, Deref(unitOut).order,
                                  <<"P", "o", "r", "t", "a", "l", "-", "A", "p", "p", "l", "i", "c", "a", "t", "i", "o", "n", "-", "I", "D">>)
            ret     == Deref(unitOut).ret
            segment == PathSegment(Deref(unitIn).Path)
        IN  IF value # Nil /\ Deref(value) # <<>>
            THEN ret = [id |-> Deref(value), err |-> Nil]
            ELSE IF segment # Nil
            THEN ret = [id |-> Deref(segment), err |-> Nil]
            ELSE ret.id = <<>> /\ ret.err # Nil

\* The extractor returned the header's "b" for the path "/v1/a".
C10_Witness ==
    /\ unitOut # Nil
    /\ Deref(unitIn).Path = <<"/", "v", "1", "/", "a">>
    /\ Deref(unitOut).ret = [id |-> <<"b">>, err |-> Nil]

----------------------------------------------------------------------------
(* C11 *)

\* The Portal-Application-ID header of the extractor's input is absent, or
\* its first value is empty.
C11_NoHeader ==
    LET value == FirstVisited(Deref(unitIn).Headers, Deref(unitOut).order,
                              <<"P", "o", "r", "t", "a", "l", "-", "A", "p", "p", "l", "i", "c", "a", "t", "i", "o", "n", "-", "I", "D">>)
    IN  value = Nil \/ Deref(value) = <<>>

\* The path starts with "/v1/".
C11_V1Path(path) ==
    Len(path) >= 4 /\ SubSeq(path, 1, 4) = <<"/", "v", "1", "/">>

\* The segments of a "/v1/" path: the rest after the prefix, split on "/".
C11_Segments(path) == Split(SubSeq(path, 5, Len(path)), "/")

\* C11 as stated: when the header is absent or empty and the path starts
\* with "/v1/", the extracted ID is the first non-empty one of the path's
\* segments.
C11_FirstNonEmptySegment ==
    (unitOut # Nil /\ C11_NoHeader /\ C11_V1Path(Deref(unitIn).Path)) =>
        LET segments == C11_Segments(Deref(unitIn).Path)
        IN  \A i \in 1..Len(segments) :
                (/\ segments[i] # <<>>
                 /\ \A j \in 1..(i - 1) : segments[j] = <<>>) =>
                    Deref(unitOut).ret = [id |-> segments[i], err |-> Nil]

\* C11, amended: when the header is absent or empty and the path starts
\* with "/v1/", the extracted ID is the first of the path's segments when
\* that segment is not empty; when it is empty ("/v1/", "/v1//a") the
\* extraction fails, whatever segments follow.
C11_FirstSegment ==
    (unitOut # Nil /\ C11_NoHeader /\ C11_V1Path(Deref(unitIn).Path)) =>
        LET segments == C11_Segments(Deref(unitIn).Path)
            ret      == Deref(unitOut).ret
        IN  IF segments[1] # <<>>
            THEN ret = [id |-> segments[1], err |-> Nil]
            ELSE ret.id = <<>> /\ ret.err = <<"portal app ID not provided in header or path">>

\* Without a header, the extractor returned "a" for the path "/v1/a/b".
C11_Witness ==
    /\ unitOut # Nil
    /\ C11_NoHeader
    /\ Deref(unitIn).Path = <<"/", "v", "1", "/", "a", "/", "b">>
    /\ Deref(unitOut).ret = [id |-> <<"a">>, err |-> Nil]

----------------------------------------------------------------------------
(* C12 *)

\* What C12 has compared with the stored secret: the value without its
\* first seven characters when these are "Bearer ", the whole value
\* otherwise ("bearer s", "Basic s", "s").
C12_Compared(value) ==
    IF /\ Len(value) >= 7
       /\ SubSeq(value, 1, 7) = <<"B", "e", "a", "r", "e", "r", " ">>
    THEN SubSeq(value, 8, Len(value))
    ELSE value

\* C12: for a non-empty Authorization value, the authorizer succeeds exactly
\* when the value with a leading "Bearer " stripped, or the whole value when
\* it does not start with "Bearer ", equals the stored secret.
C12_BearerStripped ==
    unitOut # Nil =>
        LET value == FirstVisited(Deref(unitIn).Headers, Deref(unitOut).order,
                                  <<"A", "u", "t", "h", "o", "r", "i", "z", "a", "t", "i", "o", "n">>)
        IN  (value # Nil /\ Deref(value) # <<>>) =>
                ((Deref(unitOut).ret = Nil) <=>
                     (C12_Compared(Deref(value)) = Deref(unitIn).APIKey))

----------------------------------------------------------------------------
(* C13 *)

\* C13: what a GetPortalApp call reads for its ID, while refreshes swap the
\* published map, is the answer of the map published when it was called or
\* the answer of a map swapped in since: the whole stored app, or not found,
\* of one of them.
C13_PreOrPostSwap ==
    (lookup # Nil /\ Deref(lookup).ret # Nil) =>
        Deref(Deref(lookup).ret) \in Deref(lookup).seen

\* A lookup called before a swap read the swapped-in app, which differs from
\* the one published at the call, while the refresh was still in progress.
C13_Witness ==
    /\ lookup # Nil
    /\ Deref(lookup).ret # Nil
    /\ Deref(Deref(lookup).ret) # Deref(lookup).pre
    /\ Deref(Deref(lookup).ret).ok
    /\ Deref(lookup).pre.ok
    /\ refresher.pc = "setAccountRateLimits"

----------------------------------------------------------------------------
(* C14 *)

\* C14: the step in which a background refresh's source call (portal-app
\* store) or warehouse call (rate-limit store) fails changes neither
\* published map nor the rate-limited set, and adds exactly one to that
\* store's refresh-error counter and nothing to the other's.
C14_FailedRefreshIsolated ==
    [][/\ (refresher.pc = "GetPortalApps" /\ refresher'.err # Nil) =>
              /\ portalApps' = portalApps
              /\ accountRateLimits' = accountRateLimits
              /\ rateLimitedAccounts' = rateLimitedAccounts
              /\ refreshErrors'.portal_app_store = refreshErrors.portal_app_store + 1
              /\ refreshErrors'.rate_limit_store = refreshErrors.rate_limit_store
       /\ (monitor.pc = "GetMonthToMomentUsage" /\ monitor'.err # Nil) =>
              /\ portalApps' = portalApps
              /\ accountRateLimits' = accountRateLimits
              /\ rateLimitedAccounts' = rateLimitedAccounts
              /\ refreshErrors'.rate_limit_store = refreshErrors.rate_limit_store + 1
              /\ refreshErrors'.portal_app_store = refreshErrors.portal_app_store]_vars

\* A rate-limit refresh has just failed for the second time and the set it
\* left in place is not empty.
C14_Witness ==
    /\ monitor.err # Nil
    /\ refreshErrors.rate_limit_store = 2
    /\ rateLimitedAccounts # {}
    /\ portalApps # <<>>

----------------------------------------------------------------------------
(* C15 *)

\* What a map of apps answers to a lookup.
C15_Answer(apps, id) ==
    IF id \in DOMAIN apps
    THEN [app |-> <<apps[id]>>, ok |-> TRUE]
    ELSE [app |-> <<>>, ok |-> FALSE]

\* C15: from the swap of a background refresh whose source call succeeded to
\* the refresh's end, and in the state the refresh ends in, GetPortalApp
\* answers every ID as the fetched map does: the fetched app when the map
\* holds the ID, not found when it does not.
C15_ServesFetched ==
    /\ [](refresher.pc \in {"Unlock", "setAccountRateLimits"} =>
              \A id \in LookupIDs :
                  GetPortalApp(id) = C15_Answer(Deref(refresher.fetched), id))
    /\ [][(refresher.pc = "setAccountRateLimits" /\ refresher'.pc = "ticker") =>
              \A id \in LookupIDs :
                  GetPortalApp(id)' = C15_Answer(Deref(refresher.fetched), id)]_vars

\* A background refresh has swapped in a map in which app "a" is key-gated
\* and on the unlimited plan and app "b" is found, while the rollup still
\* holds the free plan of the map it replaced.
C15_Witness ==
    /\ refresher.pc = "setAccountRateLimits"
    /\ DOMAIN portalApps = {<<"a">>, <<"b">>}
    /\ portalApps = Deref(refresher.fetched)
    /\ portalApps[<<"a">>].Auth = <<[APIKey |-> <<"s">>]>>
    /\ portalApps[<<"a">>].PlanType = "PLAN_UNLIMITED"
    /\ "acct1" \in DOMAIN accountRateLimits
    /\ accountRateLimits["acct1"].PlanType = "PLAN_FREE"

----------------------------------------------------------------------------
(* C16 *)

\* C16: once main serves it serves for good and both background goroutines
\* stay started, whatever refreshes fail; after a failed refresh of either
\* store its goroutine calls the source again; and a refresh whose source
\* call succeeded publishes the map it fetched.
C16_RefreshGoesOn ==
    /\ [][main.pc = "Serve" =>
              /\ main' = main
              /\ tasks' = tasks
              /\ tasks = {"startBackgroundRefresh", "startRateLimitMonitoring"}]_vars
    /\ (refresher.err # Nil) ~> (refresher.pc = "GetPortalApps")
    /\ (monitor.err # Nil) ~> (monitor.pc = "GetMonthToMomentUsage")
    /\ (refresher.pc = "Lock") ~>
           (refresher.pc = "Unlock" /\ portalApps = Deref(refresher.fetched))

\* After two failed refreshes of the portal-app store, a third one has
\* fetched a map other than the published one and is about to swap it in.
C16_Witness ==
    /\ main.pc = "Serve"
    /\ refreshErrors.portal_app_store = 2
    /\ refresher.pc = "assign"
    /\ portalApps # Deref(refresher.fetched)

----------------------------------------------------------------------------
(* C17 *)

\* C17: NewPortalAppStore has called the source not at all before its
\* initial fetch and exactly once ever after; the background refresh is
\* started only after a fetch that succeeded; and a failed fetch makes main
\* panic with no store filled, no goroutine started, and nothing running
\* after it.
C17_ConstructionFetchesOnce ==
    /\ [](/\ main.pc = "NewPortalAppStore" => (main.fetches = 0 /\ tasks = {})
          /\ main.pc # "NewPortalAppStore" => main.fetches = 1
          /\ main.pc = "go startBackgroundRefresh" => (main.err = Nil /\ tasks = {})
          /\ main.pc = "panic" =>
                 /\ tasks = {}
                 /\ portalApps = <<>> /\ accountRateLimits = <<>>
                 /\ rateLimitedAccounts = {}
                 /\ refresher.pc = "ticker" /\ monitor.pc = "ticker")
    /\ [][(main.pc = "NewPortalAppStore" /\ main'.err # Nil) => main'.pc = "panic"]_vars
    /\ [][main.pc # "panic"]_vars

\* The initial fetch failed and main panicked.
C17_Witness ==
    /\ main.pc = "panic"
    /\ main.fetches = 1
    /\ main.err # Nil
    /\ refreshErrors.portal_app_store = 1
    /\ tasks = {}

----------------------------------------------------------------------------
(* C18 *)

\* C18: NewRateLimitStore goes on to start its background goroutine and to
\* return whether its initial check failed or not; after a failed initial
\* check IsAccountRateLimited is false for every account; and the set
\* changes only in a step in which a check's warehouse call succeeded.
C18_InitialCheckMayFail ==
    /\ [][(main.pc = "NewRateLimitStore" /\ main' # main) =>
              main'.pc = "go startRateLimitMonitoring"]_vars
    /\ [][(main.pc = "go startRateLimitMonitoring" /\ main' # main) =>
              /\ main'.pc = "Serve"
              /\ "startRateLimitMonitoring" \in tasks']_vars
    /\ [](main.pc = "go startRateLimitMonitoring" /\ main.err # Nil =>
              \A accountID \in AccountIDs : ~IsAccountRateLimited(accountID))
    /\ [][rateLimitedAccounts' # rateLimitedAccounts =>
              \/ main.pc = "NewRateLimitStore" /\ main'.err = Nil
              \/ /\ monitor.pc = "GetMonthToMomentUsage"
                 /\ monitor'.pc = "ticker"
                 /\ monitor'.err = Nil]_vars

\* The initial check failed, main serves with the background check started,
\* and a later check has put an account in the set.
C18_Witness ==
    /\ main.pc = "Serve"
    /\ main.err # Nil
    /\ "startRateLimitMonitoring" \in tasks
    /\ refreshErrors.rate_limit_store = 1
    /\ rateLimitedAccounts # {}

----------------------------------------------------------------------------
(* C19 *)

\* C19: after a rate-limit refresh, an account of the warehouse's response
\* that the rollup holds on PLAN_FREE is in the new set exactly when its
\* usage is above 1,000,000; at 1,000,000 it is not.
C19_FreePlanStrictlyAboveCap ==
    unitOut # Nil =>
        \A accountID \in DOMAIN Deref(unitIn).accountUsage :
            (/\ accountID \in DOMAIN accountRateLimits
             /\ accountRateLimits[accountID].PlanType = "PLAN_FREE") =>
                (accountID \in rateLimitedAccounts <=>
                     Deref(unitIn).accountUsage[accountID] > 1000000)

\* A free-plan account reported at exactly 1,000,000 was left out of the set
\* in which another account, above its limit, was put.
C19_Witness ==
    /\ unitOut # Nil
    /\ "acct1" \in DOMAIN Deref(unitIn).accountUsage
    /\ Deref(unitIn).accountUsage["acct1"] = 1000000
    /\ "acct1" \in DOMAIN accountRateLimits
    /\ accountRateLimits["acct1"].PlanType = "PLAN_FREE"
    /\ "acct1" \notin rateLimitedAccounts

----------------------------------------------------------------------------
(* C20 *)

\* C20: after a rate-limit refresh, an account of the warehouse's response
\* that the rollup holds on PLAN_UNLIMITED with a MonthlyUserLimit above 0 is
\* in the new set exactly when its usage is above that MonthlyUserLimit.
C20_UnlimitedPlanAboveUserLimit ==
    unitOut # Nil =>
        \A accountID \in DOMAIN Deref(unitIn).accountUsage :
            (/\ accountID \in DOMAIN accountRateLimits
             /\ accountRateLimits[accountID].PlanType = "PLAN_UNLIMITED"
             /\ accountRateLimits[accountID].MonthlyUserLimit > 0) =>
                (accountID \in rateLimitedAccounts <=>
                     Deref(unitIn).accountUsage[accountID] >
                         accountRateLimits[accountID].MonthlyUserLimit)

\* An unlimited-plan account with a limit of its own, reported above the
\* free-tier cap and at its own limit, was left out of the set.
C20_Witness ==
    /\ unitOut # Nil
    /\ "acct1" \in DOMAIN Deref(unitIn).accountUsage
    /\ "acct1" \in DOMAIN accountRateLimits
    /\ accountRateLimits["acct1"].PlanType = "PLAN_UNLIMITED"
    /\ accountRateLimits["acct1"].MonthlyUserLimit > 1000000
    /\ Deref(unitIn).accountUsage["acct1"] = accountRateLimits["acct1"].MonthlyUserLimit
    /\ "acct1" \notin rateLimitedAccounts

----------------------------------------------------------------------------
(* C21 *)

\* C21: whatever the usage, an account is not decided limited when its plan
\* is PLAN_UNLIMITED with no MonthlyUserLimit (no RateLimit, or a limit of 0),
\* nor when its plan is neither PLAN_FREE nor PLAN_UNLIMITED, a positive
\* MonthlyUserLimit notwithstanding.
C21_NeverLimited ==
    unitOut # Nil =>
        LET portalApp == Deref(unitIn).portalApp
            noOverride ==
                \/ portalApp.RateLimit = Nil
                \/ Deref(portalApp.RateLimit).MonthlyUserLimit = 0
        IN  (\/ portalApp.PlanType = "PLAN_UNLIMITED" /\ noOverride
             \/ portalApp.PlanType \notin {"PLAN_FREE", "PLAN_UNLIMITED"}) =>
                /\ ~Deref(unitOut).shouldLimit
                /\ ~Deref(unitOut).shouldLimitHigher

\* An account on an unknown plan with a positive MonthlyUserLimit, reported
\* above that limit and above the free-tier cap, was decided not limited.
C21_Witness ==
    /\ unitOut # Nil
    /\ Deref(unitIn).portalApp.PlanType = "PLAN_UNKNOWN"
    /\ Deref(unitIn).portalApp.RateLimit # Nil
    /\ Deref(Deref(unitIn).portalApp.RateLimit).MonthlyUserLimit > 0
    /\ Deref(unitIn).usage > Deref(Deref(unitIn).portalApp.RateLimit).MonthlyUserLimit
    /\ Deref(unitIn).usage > 1000000
    /\ ~Deref(unitOut).shouldLimit

----------------------------------------------------------------------------
(* C22 *)

\* C22: an account of the warehouse's response that has no entry in the
\* rollup when the refresh runs is not in the set that refresh builds,
\* whatever its usage.
C22_AbsentAccountSkipped ==
    unitOut # Nil =>
        \A accountID \in DOMAIN Deref(unitIn).accountUsage :
            accountID \notin DOMAIN accountRateLimits =>
                accountID \notin rateLimitedAccounts

\* The refresh put one reported account in the set and skipped another,
\* reported above both limits, that the rollup does not hold.
C22_Witness ==
    /\ unitOut # Nil
    /\ DOMAIN Deref(unitIn).accountUsage = {"acct1", "acct2"}
    /\ Deref(unitIn).accountUsage["acct2"] > UserLimit
    /\ "acct2" \notin DOMAIN accountRateLimits
    /\ rateLimitedAccounts = {"acct1"}

----------------------------------------------------------------------------
(* C23 *)

----------------------------------------------------------------------------
(* C24 *)

\* C24: the published set changes only in the one assignment that installs
\* the map a refresh has finished building from its whole response, under
\* the write lock; and what an IsAccountRateLimited call reads, while
\* refreshes run, is the answer of the set published when it was called or
\* of a set installed since, so a call made after a swap reads the new set.
C24_PublishedWhole ==
    /\ []((limitCheck # Nil /\ Deref(limitCheck).ret # Nil) =>
            Deref(Deref(limitCheck).ret) \in Deref(limitCheck).seen)
    /\ [][rateLimitedAccounts' # rateLimitedAccounts =>
            /\ monitor.pc = "assign"
            /\ monitor.pending = <<>>
            /\ rateLimitedAccountsMu.writer
            /\ rateLimitedAccountsMu.readers = 0
            /\ rateLimitedAccounts' = newRateLimitedAccounts(monitor.accountUsage)]_vars

\* A check called while the set held one account read, after a swap, the
\* new set of the other account alone: not limited, where it was at the call.
C24_Witness ==
    /\ limitCheck # Nil
    /\ Deref(limitCheck).ret # Nil
    /\ Deref(limitCheck).accountID = "acct1"
    /\ Deref(limitCheck).pre
    /\ ~Deref(Deref(limitCheck).ret)
    /\ rateLimitedAccounts = {"acct2"}

----------------------------------------------------------------------------
(* C25 *)

\* C25: the step in which the handler runs Check leaves the published map,
\* the rollup and the rate-limited set as they were, starts no refresh and
\* no source or warehouse call, and calls nothing on its collaborators but
\* GetPortalApp, the authorizer and IsAccountRateLimited.
C25_HandlerOnlyReads ==
    [][Handled =>
        /\ UNCHANGED <<portalApps, accountRateLimits, rateLimitedAccounts>>
        /\ UNCHANGED <<refresher, monitor, refreshErrors, tasks>>
        /\ \A i \in DOMAIN Deref(checkRet').calls :
               Deref(checkRet').calls[i] \in
                   {"GetPortalApp", "authorizeRequest", "IsAccountRateLimited"}]_vars

\* A probe went through the lookup, the authorizer and the rate-limit check
\* with both stores filled, and they are as it found them.
C25_Witness ==
    /\ pc = "done"
    /\ Deref(checkRet).calls = <<"GetPortalApp", "authorizeRequest", "IsAccountRateLimited">>
    /\ rateLimitedAccounts # {}
    /\ DOMAIN portalApps = {<<"a">>, <<"b">>}

----------------------------------------------------------------------------
(* C26 *)

\* C26: the process stops only once no refresh of either store is in flight
\* and the RPCs that were in flight have been answered; after it has
\* stopped no refresh runs.
C26_GracefulShutdown ==
    /\ [](main.pc = "exited" =>
            /\ refresher.pc = "ticker"
            /\ monitor.pc = "ticker"
            /\ pc = "idle")
    /\ [][main.pc = "exited" => UNCHANGED <<refresher, monitor, storeVars>>]_vars

----------------------------------------------------------------------------
(* C27 *)

\* C27: a source call and a warehouse call made by a refresh come to an end,
\* by an answer or by their deadline, whether or not the source or the
\* warehouse ever answers; so every refresh terminates.
C27_CallsEnd ==
    /\ (refresher.pc = "GetPortalApps") ~> (refresher.pc # "GetPortalApps")
    /\ (monitor.pc = "GetMonthToMomentUsage") ~> (monitor.pc # "GetMonthToMomentUsage")

----------------------------------------------------------------------------
(* C28 *)

\* C28: the metric a handled probe records carries the four labels
\* portal_app_id, account_id, status and error_type; account_id is empty
\* exactly when the probe failed before its portal app was looked up with
\* success, and is otherwise the looked-up app's AccountID, which is not
\* empty.
C28_LabelHygiene ==
    pc = "done" =>
        LET ret == Deref(checkRet)
        IN  /\ DOMAIN ret.authRequest =
                   {"portal_app_id", "account_id", "status", "error_type"}
            /\ ret.authRequest.account_id = "" <=> ret.portalApp = Nil
            /\ ret.portalApp # Nil =>
                   /\ ret.authRequest.account_id = Deref(ret.portalApp).AccountID
                   /\ ret.authRequest.account_id # ""

----------------------------------------------------------------------------
(* C29 *)

\* C29: for one portal app (one plan, one RateLimit), if a usage is decided
\* limited then so is every usage at least as high.
C29_MonotoneInUsage ==
    unitOut # Nil =>
        (Deref(unitOut).shouldLimit => Deref(unitOut).shouldLimitHigher)

\* An account with a limit of its own was decided limited one relay above
\* the limit, and again at a usage far above it.
C29_Witness ==
    /\ unitOut # Nil
    /\ Deref(unitIn).portalApp.PlanType = "PLAN_UNLIMITED"
    /\ Deref(unitOut).rateLimit > 0
    /\ Deref(unitIn).usage = Deref(unitOut).rateLimit + 1
    /\ Deref(unitIn).higher > Deref(unitIn).usage + 1
    /\ Deref(unitOut).shouldLimit
    /\ Deref(unitOut).shouldLimitHigher

----------------------------------------------------------------------------
(* C30 *)

\* C30: the comparison of a presented key with the stored secret does the
\* same work for any two presented keys of one length, however long a prefix
\* of each matches the secret.
C30_ConstantTime ==
    unitOut # Nil =>
        Deref(unitOut).examinedFirst = Deref(unitOut).examinedSecond

----------------------------------------------------------------------------
(* C31 *)

\* C31: the rollup a successful refresh leaves is the one derived from the
\* fetched map alone: its keys are the accounts of the fetched apps that have
\* a RateLimit, each mapped to the RateLimit of the first such app met;
\* nothing of the rollup before the refresh is left in it.
C31_RollupFromNewSnapshotAlone ==
    [][(refresher.pc = "setAccountRateLimits" /\ refresher'.pc = "ticker") =>
          \E order \in IterationOrders(DOMAIN portalApps) :
              accountRateLimits' = setAccountRateLimitsFrom(portalApps, order, <<>>)]_vars

----------------------------------------------------------------------------
(* C32 *)

\* C32: whenever the published map can be read (portalAppsMu is not held
\* for writing; the rollup's own mutex is held only inside the step that
\* fills it), the rollup is the one of the published map: a reader cannot
\* find the new map beside the previous rollup, nor the reverse.
C32_RollupMatchesSnapshot ==
    ~portalAppsMu.writer =>
        \E order \in IterationOrders(DOMAIN portalApps) :
            accountRateLimits = setAccountRateLimitsFrom(portalApps, order, <<>>)

----------------------------------------------------------------------------
(* C33 *)

----------------------------------------------------------------------------
(* C34 *)

\* C34: a Check that answers OK for a portal app was given one entry of that
\* app by a map published while it ran, and the Auth its API-key step read,
\* the RateLimit its rate-limit step read and the ID and AccountID of its
\* response headers are all that entry's, whatever the refresher publishes
\* in between.
C34_OneSnapshotEntry ==
    (/\ lookup # Nil
     /\ Deref(lookup).pc = "return"
     /\ Deref(Deref(lookup).resp).HttpResponse.kind = "OkResponse") =>
        \E e \in Deref(lookup).seen :
            /\ e.ok
            /\ Deref(e.app).ID = Deref(lookup).portalAppID
            /\ Deref(Deref(lookup).auth) = Deref(e.app).Auth
            /\ Deref(Deref(lookup).rateLimit) = Deref(e.app).RateLimit
            /\ Deref(Deref(lookup).resp).HttpResponse.Headers =
                   getHTTPHeaders(Deref(e.app))

\* An OK answer for an app whose published entry was replaced by a different
\* one while the request was handled.
C34_Witness ==
    /\ lookup # Nil
    /\ Deref(lookup).pc = "return"
    /\ Deref(Deref(lookup).resp).HttpResponse.kind = "OkResponse"
    /\ GetPortalApp(Deref(lookup).portalAppID).ok
    /\ GetPortalApp(Deref(lookup).portalAppID).app # Deref(lookup).portalApp
    /\ Deref(GetPortalApp(Deref(lookup).portalAppID).app).AccountID #
           Deref(Deref(lookup).portalApp).AccountID

----------------------------------------------------------------------------
(* C35 *)

\* Where updateRateLimitedAccounts stands: waiting for the ticker, waiting
\* for the warehouse, or building and swapping in the new set.
RefreshPhase(at) ==
    IF at = "ticker" THEN "Idle"
    ELSE IF at = "GetMonthToMomentUsage" THEN "Fetching"
    ELSE "Publishing"

\* C35: the rate-limit store's one refresh worker only goes from Idle to
\* Fetching, from Fetching to Publishing with a warehouse response and no
\* error, from Fetching to Idle with an error, and from Publishing to Idle
\* once the new set is swapped in; the published set changes only inside
\* Publishing.
C35_RefreshTaskTransitions ==
    [][LET from == RefreshPhase(monitor.pc)
           to   == RefreshPhase(monitor'.pc)
       IN  /\ \/ from = to
              \/ from = "Idle" /\ to = "Fetching"
              \/ /\ from = "Fetching" /\ to = "Publishing"
                 /\ monitor'.err = Nil
                 /\ monitor'.accountUsage \in UsageResponses
              \/ /\ from = "Fetching" /\ to = "Idle"
                 /\ monitor'.err # Nil
              \/ /\ from = "Publishing" /\ to = "Idle"
                 /\ monitor.pc = "Unlock"
                 /\ rateLimitedAccounts = monitor.newRateLimitedAccounts
           /\ rateLimitedAccounts' # rateLimitedAccounts =>
                  from = "Publishing" /\ to = "Publishing"]_vars

\* The worker about to leave Publishing, having swapped in a set with an
\* account in it, after a refresh that failed.
C35_Witness ==
    /\ monitor.pc = "Unlock"
    /\ rateLimitedAccounts = monitor.newRateLimitedAccounts
    /\ rateLimitedAccounts # {}
    /\ refreshErrors.rate_limit_store > 0

----------------------------------------------------------------------------
(* C36 *)

----------------------------------------------------------------------------
(* C37 *)

\* C37: after a refresh against the warehouse, every account of the rollup
\* whose effective limit is positive (the free-tier cap, or the limit of its
\* own of an account on PLAN_UNLIMITED, however low) is in the published set
\* exactly when its month-to-date total is above that limit.
C37_LimitedIffOverLimit ==
    unitOut # Nil =>
        \A accountID \in DOMAIN accountRateLimits :
            LET rateLimit == getRateLimit(Deref(GetAccountPortalApp(accountID).app))
                usage     == IF accountID \in DOMAIN Deref(unitIn).totals
                             THEN Deref(unitIn).totals[accountID]
                             ELSE 0
            IN  rateLimit > 0 =>
                    (accountID \in rateLimitedAccounts <=> usage > rateLimit)

----------------------------------------------------------------------------
(* C38 *)

\* The set updateRateLimitedAccounts builds from a response when every
\* account is looked up in the one rollup rateLimits.
LimitedAgainst(rateLimits, accountUsage) ==
    {accountID \in DOMAIN accountUsage :
        /\ accountID \in DOMAIN rateLimits
        /\ shouldLimitAccount(
               getRateLimit([AccountID |-> accountID,
                             PlanType  |-> rateLimits[accountID].PlanType,
                             RateLimit |-> Ptr(rateLimits[accountID])]),
               accountUsage[accountID])}

\* C38: the set a refresh swaps in is the set of its response looked up in
\* one rollup, the one before or the one after a publication of the
\* portal-app store that fell into the refresh; it is never put together
\* from answers of both.
C38_OneRollupVersion ==
    monitor.pc = "Unlock" =>
        \E rateLimits \in monitor.rollups :
            rateLimitedAccounts = LimitedAgainst(rateLimits, monitor.accountUsage)

----------------------------------------------------------------------------
(* C39 *)

\* C39: the set a successful refresh has swapped in holds exactly the
\* accounts of that refresh's response that are over their limit in the
\* rollup, whatever the set before held: an account that is not among them
\* is answered as not limited, no app of it is refused by
\* checkAccountRateLimited, and the set stays so until the next swap.
C39_NothingCarriedOver ==
    /\ [](monitor.pc = "Unlock" =>
            LET fresh == LimitedAgainst(accountRateLimits, monitor.accountUsage)
            IN  /\ rateLimitedAccounts = fresh
                /\ \A accountID \in AccountIDs \ fresh :
                       ~IsAccountRateLimited(accountID)
                /\ \A id \in DOMAIN portalApps :
                       portalApps[id].AccountID \notin fresh =>
                           checkAccountRateLimited(portalApps[id]).err = Nil)
    /\ [][rateLimitedAccounts' # rateLimitedAccounts => monitor.pc = "assign"]_vars

\* An account that was limited when a check of it was called is missing from
\* the response of the refresh that has just swapped its set in, and is no
\* longer limited.
C39_Witness ==
    /\ monitor.pc = "Unlock"
    /\ limitCheck # Nil
    /\ Deref(limitCheck).pre
    /\ Deref(limitCheck).accountID \notin DOMAIN monitor.accountUsage
    /\ ~IsAccountRateLimited(Deref(limitCheck).accountID)
    /\ rateLimitedAccounts # {}

----------------------------------------------------------------------------
(* C40 *)

\* C40: after a successful refresh the series of the account usage gauge
\* are those of accounts in that refresh's response and no others, so there
\* are never more of them than the response has accounts.
C40_GaugeSeriesOfLatestRefresh ==
    unitOut # Nil =>
        /\ \A s \in Deref(unitOut).accountUsageTotal :
               s.labels.account_id \in DOMAIN Deref(unitOut).accountUsage
        /\ Cardinality(Deref(unitOut).accountUsageTotal) <=
               Cardinality(DOMAIN Deref(unitOut).accountUsage)

====
